---------------------------- MODULE Spec2Model ----------------------------
(***************************************************************************)
(* Model of the admin dashboard's in-browser tabular data explorer:        *)
(*   admin-app/src/components/DataGrid.tsx                  (DataGrid)     *)
(*   admin-app/src/components/DataGrid/ColumnVisibilityToggle.tsx          *)
(*        (useColumnVisibility, ColumnFilterPopover)                       *)
(*   DataGrid/utils (loadColumnFilters, saveColumnFilters, ...)            *)
(*                                                                         *)
(* JavaScript strings are sequences of one-character strings, so that      *)
(* toLowerCase, trim and includes are computed and not assumed.  Column    *)
(* names and object keys are atomic TLA+ strings: the code only compares   *)
(* them for equality.  JavaScript values are records tagged by field t.    *)
(***************************************************************************)
EXTENDS Integers, Sequences, FiniteSets, TLC

(***************************************************************************)
(* Bounds of the model.                                                    *)
(***************************************************************************)
MaxRows == 2          \* longest Row Store drawn by the filter specification
MaxInFlight == 2      \* plants fetches that overlap in the grid specification
MaxSortRows == 3      \* longest Row Store drawn by the sort specification

(***************************************************************************)
(* JavaScript values.                                                      *)
(***************************************************************************)
JNull == [t |-> "null"]
JUndefined == [t |-> "undefined"]
JBool(b) == [t |-> "bool", v |-> b]
JNum(n) == [t |-> "num", v |-> n]
JStr(s) == [t |-> "str", v |-> s]
JArr(a) == [t |-> "arr", v |-> a]
JObj(m) == [t |-> "obj", v |-> m]

EmptyMap == [k \in {} |-> JNull]

\* value === null || value === undefined
IsNullish(value) == value.t \in {"null", "undefined"}

\* plant[column]: a missing key reads as undefined
Get(obj, key) == IF key \in DOMAIN obj THEN obj[key] ELSE JUndefined

\* the object without one key (delete updated[column])
Without(m, key) == [k \in (DOMAIN m) \ {key} |-> m[k]]

\* the object with one key assigned (updated[column] = value)
With(m, key, val) == [k \in (DOMAIN m) \cup {key} |-> IF k = key THEN val ELSE m[k]]

(***************************************************************************)
(* String primitives.                                                      *)
(***************************************************************************)
LowerChar(c) ==
  CASE c = "A" -> "a" [] c = "B" -> "b" [] c = "E" -> "e" [] c = "F" -> "f"
    [] c = "L" -> "l" [] c = "N" -> "n" [] c = "O" -> "o" [] c = "R" -> "r"
    [] c = "S" -> "s" [] c = "T" -> "t" [] c = "U" -> "u" [] c = "Y" -> "y"
    [] OTHER -> c

toLowerCase(s) == [i \in 1..Len(s) |-> LowerChar(s[i])]

IsSpace(c) == c = " "

RECURSIVE trimStart(_)
trimStart(s) == IF s # <<>> /\ IsSpace(Head(s)) THEN trimStart(Tail(s)) ELSE s

RECURSIVE trimEnd(_)
trimEnd(s) ==
  IF s # <<>> /\ IsSpace(s[Len(s)]) THEN trimEnd(SubSeq(s, 1, Len(s) - 1)) ELSE s

trim(s) == trimEnd(trimStart(s))

\* s.includes(q)
includes(s, q) ==
  \E i \in 0..(Len(s) - Len(q)) : SubSeq(s, i + 1, i + Len(q)) = q

Digit(d) ==
  CASE d = 0 -> "0" [] d = 1 -> "1" [] d = 2 -> "2" [] d = 3 -> "3" [] d = 4 -> "4"
    [] d = 5 -> "5" [] d = 6 -> "6" [] d = 7 -> "7" [] d = 8 -> "8" [] OTHER -> "9"

RECURSIVE NumStr(_)
NumStr(n) == IF n < 10 THEN <<Digit(n)>> ELSE NumStr(n \div 10) \o <<Digit(n % 10)>>

\* String(value) for the primitive values a row holds
ToStr(value) ==
  CASE value.t = "str" -> value.v
    [] value.t = "bool" -> IF value.v THEN <<"t","r","u","e">> ELSE <<"f","a","l","s","e">>
    [] value.t = "num" -> NumStr(value.v)
    [] value.t = "null" -> <<"n","u","l","l">>
    [] OTHER -> <<"u","n","d","e","f","i","n","e","d">>

STrue == <<"t","r","u","e">>
SFalse == <<"f","a","l","s","e">>
SYes == <<"y","e","s">>
SNo == <<"n","o">>

(***************************************************************************)
(* Filter Engine: DataGrid.filteredAndSortedPlants, filter part.           *)
(***************************************************************************)
IdxKey(i) == CASE i = 1 -> "0" [] i = 2 -> "1" [] i = 3 -> "2" [] OTHER -> "3"

\* Object.entries(value) as a map key -> value (an element of a stored array is
\* kept as the atomic name it spells, and becomes a one-token string here)
ObjectEntries(value) ==
  CASE value.t = "obj" -> value.v
    [] value.t = "arr" -> [k \in {IdxKey(i) : i \in 1..Len(value.v)} |->
                             JStr(<<value.v[CHOOSE i \in 1..Len(value.v) : IdxKey(i) = k]>>)]
    [] value.t = "str" -> [k \in {IdxKey(i) : i \in 1..Len(value.v)} |->
                             JStr(<<value.v[CHOOSE i \in 1..Len(value.v) : IdxKey(i) = k]>>)]
    [] OTHER -> EmptyMap

\* Object.entries(null) and Object.entries(undefined) throw a TypeError
EntriesThrow(value) == value.t \in {"null", "undefined"}

\* searchQuery.trim() is truthy
QueryActive(searchQuery) == trim(searchQuery) # <<>>

\* GlobalMatch that also searches the text "null" and "undefined" of empty fields
GlobalMatch_EmptyAsText(plant, searchQuery) ==
  \E k \in DOMAIN plant :
     includes(toLowerCase(ToStr(plant[k])), toLowerCase(searchQuery))

\* Object.values(plant).some(value => value !== null && value !== undefined &&
\*                                   String(value).toLowerCase().includes(query))
GlobalMatch(plant, searchQuery) ==
  \E k \in DOMAIN plant :
     /\ ~IsNullish(plant[k])
     /\ includes(toLowerCase(ToStr(plant[k])), toLowerCase(searchQuery))

ApplySearch(rows, searchQuery) ==
  IF QueryActive(searchQuery)
    THEN SelectSeq(rows, LAMBDA plant : GlobalMatch(plant, searchQuery))
    ELSE rows

\* isBooleanValue(value) of the grid utilities
isBooleanValue(value) ==
  \/ value.t = "bool"
  \/ toLowerCase(ToStr(value)) = STrue
  \/ toLowerCase(ToStr(value)) = SFalse

\* the per-value boolean detection of the committed column filter
LooksBoolean(value) ==
  \/ value.t = "bool"
  \/ toLowerCase(ToStr(value)) = STrue
  \/ toLowerCase(ToStr(value)) = SFalse

\* value === true || String(value).toLowerCase() === 'true'
BoolVal(value) == (value.t = "bool" /\ value.v) \/ toLowerCase(ToStr(value)) = STrue

\* query === 'yes' || query === 'true'
FilterBool(query) == query = SYes \/ query = STrue

\* the callback of filtered.filter(...) for one committed column filter
ColumnFilterMatch(plant, column, filterValue) ==
  LET value == Get(plant, column)
      query == toLowerCase(filterValue)
  IN  IF IsNullish(value) THEN FALSE
      ELSE IF LooksBoolean(value) THEN BoolVal(value) = FilterBool(query)
      ELSE includes(toLowerCase(ToStr(value)), query)

\* filterValue.trim() throws unless filterValue is a string
EntryThrows(filterValue) == filterValue.t # "str"

\* the forEach over Object.entries(columnFilters), one entry after the other
RECURSIVE ApplyColumnFilters(_, _)
ApplyColumnFilters(rows, entries) ==
  IF DOMAIN entries = {} THEN rows
  ELSE LET column == CHOOSE k \in DOMAIN entries : TRUE
           filterValue == entries[column].v
           kept == IF trim(filterValue) # <<>>
                     THEN SelectSeq(rows, LAMBDA plant :
                                      ColumnFilterMatch(plant, column, filterValue))
                     ELSE rows
       IN  ApplyColumnFilters(kept, Without(entries, column))

\* the render throws inside the filter memo
FilterThrows(filters) ==
  \/ EntriesThrow(filters)
  \/ \E k \in DOMAIN ObjectEntries(filters) : EntryThrows(ObjectEntries(filters)[k])

\* filteredPlants without the global search step
filteredPlants_NoSearch(rows, query, filters) ==
  ApplyColumnFilters(rows, ObjectEntries(filters))

filteredPlants(rows, query, filters) ==
  ApplyColumnFilters(ApplySearch(rows, query), ObjectEntries(filters))

(***************************************************************************)
(* Sort Engine: the comparator of filtered.sort(...) and compareQtyValues. *)
(* String.prototype.localeCompare is modelled over the characters the      *)
(* model's strings hold: it orders by letters and digits first (space and  *)
(* punctuation before digits, digits before letters, case ignored) and     *)
(* breaks a tie by case, lower case first.                                 *)
(***************************************************************************)
CollationOrder ==
  <<" ", "+", "0", "1", "2", "3", "4", "5", "6", "7", "8", "9",
    "a", "b", "c", "d", "e", "f", "g", "h", "i", "j", "k", "l", "m",
    "n", "o", "p", "q", "r", "s", "t", "u", "v", "w", "x", "y", "z">>

PrimaryWeight(c) == CHOOSE i \in 1..Len(CollationOrder) : CollationOrder[i] = LowerChar(c)
CaseWeight(c) == IF LowerChar(c) = c THEN 0 ELSE 1

\* lexicographic comparison of two sequences of weights: -1, 0 or 1
RECURSIVE CompareWeights(_, _)
CompareWeights(x, y) ==
  IF x = <<>> THEN (IF y = <<>> THEN 0 ELSE -1)
  ELSE IF y = <<>> THEN 1
  ELSE IF Head(x) < Head(y) THEN -1
  ELSE IF Head(x) > Head(y) THEN 1
  ELSE CompareWeights(Tail(x), Tail(y))

\* a.localeCompare(b)
localeCompare(a, b) ==
  LET primary == CompareWeights([i \in 1..Len(a) |-> PrimaryWeight(a[i])],
                                [i \in 1..Len(b) |-> PrimaryWeight(b[i])])
  IN  IF primary # 0 THEN primary
      ELSE CompareWeights([i \in 1..Len(a) |-> CaseWeight(a[i])],
                          [i \in 1..Len(b) |-> CaseWeight(b[i])])

IsDigitChar(c) == c \in {"0", "1", "2", "3", "4", "5", "6", "7", "8", "9"}
DigitValue(c) == PrimaryWeight(c) - 3

\* the value of a sequence of digits
RECURSIVE DigitsValue(_)
DigitsValue(ds) ==
  IF ds = <<>> THEN 0 ELSE 10 * DigitsValue(SubSeq(ds, 1, Len(ds) - 1)) + DigitValue(ds[Len(ds)])

\* extractNumber(str): the digits of str read as one number, null (ok FALSE) when
\* str has no digit.  The model's strings hold no '.', so the number is an integer.
extractNumber(str) ==
  LET cleaned == SelectSeq(str, IsDigitChar)
  IN  IF cleaned = <<>> THEN [ok |-> FALSE, v |-> 0]
      ELSE [ok |-> TRUE, v |-> DigitsValue(cleaned)]

\* compareQtyValues that compares the texts and parses no number
compareQtyValues_AsText(a, b, direction) ==
  LET aStr == IF IsNullish(a) THEN <<>> ELSE ToStr(a)
      bStr == IF IsNullish(b) THEN <<>> ELSE ToStr(b)
  IN  IF direction = "asc" THEN localeCompare(aStr, bStr) ELSE localeCompare(bStr, aStr)

\* compareQtyValues(a, b, direction)
\* compareQtyValues that puts the parseable quantities first in both directions
compareQtyValues_NumbersFirst(a, b, direction) ==
  LET aStr == IF IsNullish(a) THEN <<>> ELSE ToStr(a)
      bStr == IF IsNullish(b) THEN <<>> ELSE ToStr(b)
      aNum == extractNumber(aStr)
      bNum == extractNumber(bStr)
      diff == IF direction = "asc" THEN aNum.v - bNum.v ELSE bNum.v - aNum.v
  IN  IF aNum.ok /\ bNum.ok THEN (IF diff = 0 THEN localeCompare(aStr, bStr) ELSE diff)
      ELSE IF aNum.ok /\ ~bNum.ok THEN -1
      ELSE IF ~aNum.ok /\ bNum.ok THEN 1
      ELSE IF direction = "asc" THEN localeCompare(aStr, bStr)
      ELSE localeCompare(bStr, aStr)

compareQtyValues(a, b, direction) ==
  LET aStr == IF IsNullish(a) THEN <<>> ELSE ToStr(a)
      bStr == IF IsNullish(b) THEN <<>> ELSE ToStr(b)
      aNum == extractNumber(aStr)
      bNum == extractNumber(bStr)
      diff == IF direction = "asc" THEN aNum.v - bNum.v ELSE bNum.v - aNum.v
  IN  IF aNum.ok /\ bNum.ok THEN (IF diff = 0 THEN localeCompare(aStr, bStr) ELSE diff)
      ELSE IF aNum.ok /\ ~bNum.ok THEN (IF direction = "asc" THEN -1 ELSE 1)
      ELSE IF ~aNum.ok /\ bNum.ok THEN (IF direction = "asc" THEN 1 ELSE -1)
      ELSE IF direction = "asc" THEN localeCompare(aStr, bStr)
      ELSE localeCompare(bStr, aStr)

\* comparePlants without the two lines that handle null and undefined
comparePlants_NullsAsText(a, b, config) ==
  LET aValue == Get(a, config.column)
      bValue == Get(b, config.column)
  IN  IF config.direction = "asc"
        THEN localeCompare(toLowerCase(ToStr(aValue)), toLowerCase(ToStr(bValue)))
        ELSE localeCompare(toLowerCase(ToStr(bValue)), toLowerCase(ToStr(aValue)))

\* the comparator passed to filtered.sort: negative, zero or positive
comparePlants(a, b, config) ==
  LET aValue == Get(a, config.column)
      bValue == Get(b, config.column)
      asc == config.direction = "asc"
  IN  IF IsNullish(aValue) THEN 1
      ELSE IF IsNullish(bValue) THEN -1
      ELSE IF config.column = "qty" THEN compareQtyValues(aValue, bValue, config.direction)
      ELSE IF aValue.t = "num" /\ bValue.t = "num"
        THEN (IF asc THEN aValue.v - bValue.v ELSE bValue.v - aValue.v)
      ELSE IF aValue.t = "bool" /\ bValue.t = "bool"
        THEN (IF aValue.v = bValue.v THEN 0
              ELSE IF asc THEN (IF aValue.v THEN 1 ELSE -1)
              ELSE (IF aValue.v THEN -1 ELSE 1))
      ELSE IF asc THEN localeCompare(toLowerCase(ToStr(aValue)), toLowerCase(ToStr(bValue)))
      ELSE localeCompare(toLowerCase(ToStr(bValue)), toLowerCase(ToStr(aValue)))

\* Array.prototype.sort is a merge sort: the halves are sorted and merged, and
\* the merge takes the head of the right run when the comparator puts it before
\* the head of the left run.  The comparator answers 1 for two rows that both
\* lack the value, in either argument order, so it is not a consistent
\* comparator and the order of such rows is left to the engine: one that asks
\* comparefn(later, earlier) < 0 keeps them in order, one that asks
\* comparefn(earlier, later) > 0 takes the later row first.
Engines == {"laterFirst", "earlierFirst"}

\* the merge takes 'later' (head of the right run) before 'earlier' (head of the left)
TakesLater(later, earlier, config, eng) ==
  IF eng = "laterFirst" THEN comparePlants(later, earlier, config) < 0
  ELSE comparePlants(earlier, later, config) > 0

\* the merge of two sorted runs: a row of the left run lands behind the rows of
\* the right run that are taken before it, the rows of the right run fill the
\* other places in their order
MergeRuns(left, right, config, eng) ==
  LET posLeft == [i \in 1..Len(left) |->
                    i + Cardinality({j \in 1..Len(right) :
                                       TakesLater(right[j], left[i], config, eng)})]
  IN  [k \in 1..(Len(left) + Len(right)) |->
         IF \E i \in 1..Len(left) : posLeft[i] = k
           THEN left[CHOOSE i \in 1..Len(left) : posLeft[i] = k]
           ELSE right[k - Cardinality({i \in 1..Len(left) : posLeft[i] < k})]]

RECURSIVE SortRuns(_, _, _)
SortRuns(rows, config, eng) ==
  IF Len(rows) <= 1 THEN rows
  ELSE MergeRuns(SortRuns(SubSeq(rows, 1, Len(rows) \div 2), config, eng),
                 SortRuns(SubSeq(rows, Len(rows) \div 2 + 1, Len(rows)), config, eng),
                 config, eng)

\* if (sortConfig) filtered.sort(...): sortConfig null is direction "none"
sortPlants(rows, config, eng) ==
  IF config.direction = "none" THEN rows ELSE SortRuns(rows, config, eng)

(***************************************************************************)
(* Column Registry.                                                        *)
(***************************************************************************)
HiddenFields == {"id", "updated_at", "latest_health_confidence"}

\* loadPlants: the column names taken from the first plant
ExtractColumns(plants) == ((DOMAIN plants[1]) \ HiddenFields) \cup {"image_count"}

\* DataGrid.booleanColumns: typeof sampleValue === 'boolean' on the first row
BooleanColumns(plants, cols) ==
  IF Len(plants) = 0 THEN {}
  ELSE {col \in cols : Get(plants[1], col).t = "bool"}

(***************************************************************************)
(* Live preview: ColumnFilterPopover.previewCount.                         *)
(***************************************************************************)
\* the "other column filters" loop: plain substring match for every column
RECURSIVE ApplyOtherFilters(_, _, _)
ApplyOtherFilters(rows, entries, column) ==
  IF DOMAIN entries = {} THEN rows
  ELSE LET col == CHOOSE k \in DOMAIN entries : TRUE
           filterValue == entries[col].v
           kept == IF col # column /\ trim(filterValue) # <<>>
                     THEN SelectSeq(rows, LAMBDA plant :
                            /\ ~IsNullish(Get(plant, col))
                            /\ includes(toLowerCase(ToStr(Get(plant, col))),
                                        toLowerCase(filterValue)))
                     ELSE rows
       IN  ApplyOtherFilters(kept, Without(entries, col), column)

\* the filter of the edited column, applied with the local (uncommitted) text
ApplyLocalFilter(rows, column, local, isBoolean) ==
  IF trim(local) # <<>>
    THEN SelectSeq(rows, LAMBDA plant :
           LET val == Get(plant, column)
           IN  IF IsNullish(val) THEN FALSE
               ELSE IF isBoolean THEN BoolVal(val) = FilterBool(toLowerCase(local))
               ELSE includes(toLowerCase(ToStr(val)), toLowerCase(local)))
    ELSE rows

previewCount(rows, column, local, isBoolean, otherFilters, query) ==
  Len(ApplyLocalFilter(
        ApplyOtherFilters(ApplySearch(rows, query), ObjectEntries(otherFilters), column),
        column, local, isBoolean))

(***************************************************************************)
(* Key-value store (localStorage).  A stored text is absent, the empty     *)
(* string, text that JSON.parse rejects, or the JSON text of a value.      *)
(***************************************************************************)
Absent == [t |-> "absent"]
EmptyText == [t |-> "empty"]
Corrupt == [t |-> "corrupt"]

\* the value JSON text can carry: an object's undefined entries are left out
\* (the arrays of the model hold strings and are carried whole)
Serialized(value) ==
  IF value.t = "obj"
    THEN JObj([k \in {key \in DOMAIN value.v : value.v[key].t # "undefined"} |-> value.v[k]])
    ELSE value

\* JSON.stringify(value); JSON.stringify(undefined) is undefined, which setItem
\* stores as the text "undefined"
JSONstringify(value) ==
  IF value.t = "undefined" THEN Corrupt ELSE [t |-> "json", v |-> Serialized(value)]

\* if (stored) ...: getItem returned a non-empty string
Truthy(text) == text.t \in {"corrupt", "json"}

\* JSON.parse(text) throws a SyntaxError
ParseThrows(text) == text.t = "corrupt"

\* JSON.parse(text)
JSONparse(text) == text.v

\* value || {}: null, false, 0 and "" are falsy
Falsy(value) ==
  \/ value.t \in {"null", "undefined"}
  \/ value.t = "bool" /\ ~value.v
  \/ value.t = "num" /\ value.v = 0
  \/ value.t = "str" /\ value.v = <<>>

(***************************************************************************)
(* Filter Preference Store: loadColumnFilters / saveColumnFilters.         *)
(***************************************************************************)
loadColumnFilters(text) ==
  IF Truthy(text) /\ ~ParseThrows(text) THEN JSONparse(text) ELSE JObj(EmptyMap)

\* saveColumnFilters that stores the lower-cased filter texts
saveColumnFilters_LowerCased(text, filters, writable) ==
  IF writable
    THEN JSONstringify(JObj([k \in DOMAIN filters.v |-> JStr(toLowerCase(filters.v[k].v))]))
    ELSE text

\* the stored text after saveColumnFilters(filters); a throwing setItem is swallowed
saveColumnFilters(text, filters, writable) ==
  IF writable THEN JSONstringify(filters) ELSE text

(***************************************************************************)
(* Visibility Preference Store: useColumnVisibility.                       *)
(***************************************************************************)
\* the value read with stored[col]: object entries only, undefined otherwise
StoredGet(stored, col) ==
  IF stored.t = "obj" THEN Get(stored.v, col) ELSE JUndefined

\* LoadVisibility that migrates in memory and leaves the stored list as it is
LoadVisibility_NoWriteBack(text, writable) ==
  IF ~Truthy(text) \/ ParseThrows(text) THEN [ref |-> JObj(EmptyMap), ls |-> text]
  ELSE IF JSONparse(text).t = "arr"
    THEN [ref |-> JObj([col \in {JSONparse(text).v[i] : i \in 1..Len(JSONparse(text).v)}
                          |-> JBool(TRUE)]),
          ls |-> text]
  ELSE [ref |-> JSONparse(text), ls |-> text]

\* the load on the first render: the ref and the stored text afterwards
LoadVisibility(text, writable) ==
  IF ~Truthy(text) THEN [ref |-> JObj(EmptyMap), ls |-> text]
  ELSE IF ParseThrows(text) THEN [ref |-> JObj(EmptyMap), ls |-> text]
  ELSE IF JSONparse(text).t = "arr"
    THEN LET parsed == JSONparse(text).v
             migrated == JObj([col \in {parsed[i] : i \in 1..Len(parsed)} |-> JBool(TRUE)])
         IN  IF writable THEN [ref |-> migrated, ls |-> JSONstringify(migrated)]
             ELSE [ref |-> JObj(EmptyMap), ls |-> text]
  ELSE [ref |-> JSONparse(text), ls |-> text]

\* stored[col] !== false
IsVisibleIn(stored, col) == StoredGet(stored, col) # JBool(FALSE)

\* 'col in stored' throws a TypeError on a primitive
InThrows(stored) == stored.t # "obj"

\* FirstReconcile that hides the columns without a stored entry
FirstReconcile_UnlistedHidden(cols, ref, text, writable) ==
  LET stored == IF Falsy(ref) \/ ref.t # "obj" THEN JObj(EmptyMap) ELSE ref
      filled == JObj([col \in (DOMAIN stored.v) \cup cols |->
                        IF col \in DOMAIN stored.v THEN stored.v[col] ELSE JBool(FALSE)])
  IN  [thrown |-> FALSE,
       visible |-> {col \in cols : StoredGet(stored, col) = JBool(TRUE)},
       ref |-> filled,
       ls |-> IF writable THEN JSONstringify(filled) ELSE text]

\* the first run of the effect with columns (isInitializedRef false)
FirstReconcile(cols, ref, text, writable) ==
  LET stored == IF Falsy(ref) THEN JObj(EmptyMap) ELSE ref
  IN  IF InThrows(stored)
        THEN [thrown |-> TRUE, visible |-> {}, ref |-> ref, ls |-> text]
        ELSE LET filled == JObj([col \in (DOMAIN stored.v) \cup cols |->
                                   IF col \in DOMAIN stored.v THEN stored.v[col]
                                   ELSE JBool(TRUE)])
             IN  [thrown |-> FALSE,
                  visible |-> {col \in cols : IsVisibleIn(stored, col)},
                  \* 'stored' is the ref's own object unless the ref was falsy
                  ref |-> IF writable \/ ~Falsy(ref) THEN filled ELSE ref,
                  ls |-> IF writable THEN JSONstringify(filled) ELSE text]

\* ColumnSync that persists no entry for the columns it discovers
ColumnSync_NoNewEntries(cols, prev, ref, text, writable) ==
  LET stored == IF Falsy(ref) THEN JObj(EmptyMap) ELSE ref
      base == IF stored.t = "obj" THEN stored.v ELSE EmptyMap
      gone == {col \in prev : col \notin cols}
      pruned == JObj([col \in (DOMAIN base) \ gone |-> base[col]])
      updated == {col \in cols : IsVisibleIn(stored, col)}
  IN  IF updated # prev
        THEN [visible |-> updated,
              ref |-> IF writable THEN pruned ELSE ref,
              ls |-> IF writable THEN JSONstringify(pruned) ELSE text]
        ELSE [visible |-> prev, ref |-> ref, ls |-> text]

\* ColumnSync that leaves the columns that no longer exist in the visible set
ColumnSync_KeepsGone(cols, prev, ref, text, writable) ==
  LET stored == IF Falsy(ref) THEN JObj(EmptyMap) ELSE ref
      base == IF stored.t = "obj" THEN stored.v ELSE EmptyMap
      gone == {col \in prev : col \notin cols}
      updated == gone \cup {col \in cols : IsVisibleIn(stored, col)}
      updatedStored == JObj([col \in (DOMAIN base) \cup cols |->
                               IF col \in DOMAIN base THEN base[col]
                               ELSE JBool(IsVisibleIn(stored, col))])
      hasChanges == updated # prev
  IN  IF hasChanges
        THEN [visible |-> updated,
              ref |-> IF writable THEN updatedStored ELSE ref,
              ls |-> IF writable THEN JSONstringify(updatedStored) ELSE text]
        ELSE [visible |-> prev, ref |-> ref, ls |-> text]

\* ColumnSync that drops the stored entry of every column that is not current
ColumnSync_DropsAbsent(cols, prev, ref, text, writable) ==
  LET stored == IF Falsy(ref) THEN JObj(EmptyMap) ELSE ref
      base == IF stored.t = "obj" THEN stored.v ELSE EmptyMap
      updated == {col \in cols : IsVisibleIn(stored, col)}
      updatedStored == JObj([col \in cols |->
                               IF col \in DOMAIN base THEN base[col]
                               ELSE JBool(IsVisibleIn(stored, col))])
      hasChanges == updated # prev
  IN  IF hasChanges
        THEN [visible |-> updated,
              ref |-> IF writable THEN updatedStored ELSE ref,
              ls |-> IF writable THEN JSONstringify(updatedStored) ELSE text]
        ELSE [visible |-> prev, ref |-> ref, ls |-> text]

\* the later runs of the effect, when the column set changed
ColumnSync(cols, prev, ref, text, writable) ==
  LET stored == IF Falsy(ref) THEN JObj(EmptyMap) ELSE ref
      base == IF stored.t = "obj" THEN stored.v ELSE EmptyMap
      gone == {col \in prev : col \notin cols}
      pruned == [col \in (DOMAIN base) \ gone |-> base[col]]
      updated == {col \in cols : IsVisibleIn(stored, col)}
      updatedStored == JObj([col \in (DOMAIN pruned) \cup cols |->
                               IF col \in DOMAIN pruned THEN pruned[col]
                               ELSE JBool(IsVisibleIn(stored, col))])
      hasChanges == updated # prev
  IN  IF hasChanges
        THEN [visible |-> updated,
              ref |-> IF writable THEN updatedStored ELSE ref,
              ls |-> IF writable THEN JSONstringify(updatedStored) ELSE text]
        ELSE [visible |-> prev, ref |-> ref, ls |-> text]

(***************************************************************************)
(* Pagination Window.                                                      *)
(***************************************************************************)
ITEMS_PER_PAGE == 50

\* Math.ceil(n / ITEMS_PER_PAGE)
TotalPagesOf(n) == (n + ITEMS_PER_PAGE - 1) \div ITEMS_PER_PAGE

Min(a, b) == IF a < b THEN a ELSE b
Max(a, b) == IF a > b THEN a ELSE b

\* rows.slice(start, end)
Slice(rows, start, end) ==
  SubSeq(rows, Min(start, Len(rows)) + 1, Min(end, Len(rows)))

(***************************************************************************)
(* State.                                                                  *)
(***************************************************************************)
VARIABLES
  domes,               \* DataGrid: the scope values fetched by loadDomes
  selectedDome,        \* DataGrid: the selected scope, "" is All Domes
  allPlants,           \* DataGrid: the Row Store
  total,               \* DataGrid: response.total of the response last applied
  storeDome,           \* the dome the response last applied was requested for
  columns,             \* DataGrid: the column names
  isLoading,           \* DataGrid: a domes fetch is in progress
  isLoadingPlants,     \* DataGrid: the plants-loading flag
  error,               \* DataGrid: the error message, "" is null
  currentPage,         \* DataGrid: zero-based page index
  searchQuery,         \* DataGrid: the global query
  sortConfig,          \* DataGrid: the sort state
  columnFilters,       \* DataGrid: the committed column filters
  editColumn,          \* the column whose filter popover was edited last, "" none
  localValue,          \* ColumnFilterPopover: the uncommitted text of that popover
  visibleColumns,      \* useColumnVisibility: the visible set
  storedVisibilityRef, \* useColumnVisibility: storedVisibilityRef.current
  isInitialized,       \* useColumnVisibility: isInitializedRef.current
  prevColumnsKey,      \* useColumnVisibility: prevColumnsRef.current
  lsVisibility,        \* localStorage['dataGrid_columnVisibility']
  lsFilters,           \* localStorage['dataGrid_columnFilters']
  writable,            \* localStorage.setItem succeeds (no quota error, not disabled)
  thrown,              \* an effect threw an error that nothing caught
  plantsInFlight,      \* pending getPlantsFromDatabase calls, per requested dome
  domesInFlight,       \* a getDomesFromDatabase call is pending
  lastOp,              \* the operation of useColumnVisibility that ran last
  foundVisibility,     \* the text getItem returned to the hook's load
  foundFilters,        \* the text getItem returned to loadColumnFilters
  engine,              \* the browser's Array.prototype.sort, one of Engines
  lsVisibleColumns,    \* localStorage['dataGrid_visibleColumns'] (list-format key)
  lsLanguage,          \* localStorage['app-language']
  readable,            \* localStorage.getItem succeeds (storage not disabled)
  defaultLanguage,     \* LanguageProvider: the defaultLanguage prop, <<>> not given
  browserLanguage,     \* navigator.language
  currentLanguage,     \* LanguageProvider: the current language, <<>> before mount
  providerMounted      \* LanguageProvider is mounted

gridVars == <<domes, selectedDome, allPlants, total, storeDome, columns, isLoading,
              isLoadingPlants, error, currentPage, searchQuery, sortConfig>>
filterVars == <<columnFilters, editColumn, localValue, lsFilters>>
visibilityVars == <<visibleColumns, storedVisibilityRef, isInitialized,
                    prevColumnsKey, lsVisibility, thrown, lastOp>>
fetchVars == <<plantsInFlight, domesInFlight>>
languageVars == <<lsLanguage, readable, defaultLanguage, browserLanguage, currentLanguage,
                  providerMounted>>
\* what the grid reads but never changes, and the state of the other application
foundVars == <<foundVisibility, foundFilters, engine, lsVisibleColumns, languageVars>>
vars == <<gridVars, filterVars, visibilityVars, fetchVars, writable, foundVars>>

NoSort == [column |-> "", direction |-> "none"]
NoError == ""
AllDomes == <<>>

\* the user application is not running and no list-format value is stored
GridAlone ==
  /\ lsVisibleColumns = [t |-> "absent"]
  /\ lsLanguage = [t |-> "absent"]
  /\ readable = TRUE
  /\ defaultLanguage = <<>>
  /\ browserLanguage = [t |-> "str", v |-> <<"e","n","-","U","S">>]
  /\ currentLanguage = <<>>
  /\ providerMounted = FALSE

(***************************************************************************)
(* Derived values of a render.                                             *)
(***************************************************************************)
\* the filter memo throws during render
RenderThrows == FilterThrows(columnFilters)

Crashed == thrown \/ RenderThrows

\* filteredAndSortedPlants before the sort (the sort permutes it and keeps its length)
filtered == filteredPlants(allPlants, searchQuery, columnFilters)

\* filteredAndSortedPlants
filteredAndSortedPlants == sortPlants(filtered, sortConfig, engine)

totalPages == TotalPagesOf(Len(filtered))
displayTotal == Len(filtered)

\* PageOf whose window is one row too long
PageOf_Overlap(rows, page) ==
  Slice(rows, page * ITEMS_PER_PAGE, page * ITEMS_PER_PAGE + ITEMS_PER_PAGE + 1)

\* the page of rows at a page index
PageOf(rows, page) ==
  Slice(rows, page * ITEMS_PER_PAGE, page * ITEMS_PER_PAGE + ITEMS_PER_PAGE)

paginatedPlants == PageOf(filteredAndSortedPlants, currentPage)

booleanColumns == BooleanColumns(allPlants, columns)

visibleColumnsList == {col \in columns : col \in visibleColumns}

\* the grid is rendered: not the spinner, the error card or the empty-database card
MainRendered == ~Crashed /\ ~isLoading /\ domes # {}

\* the pagination bar above the table (Columns, Refresh, Previous, Next)
TopBarRendered == MainRendered /\ ~isLoadingPlants /\ totalPages > 1

\* the table with its header buttons and filter popovers
\* (paginatedPlants.length > 0, read off the sequence before the sort: the sort
\* keeps the length)
TableRendered == MainRendered /\ ~isLoadingPlants /\ Len(PageOf(filtered, currentPage)) > 0

\* the pagination bar below the table
BottomBarRendered == TableRendered /\ totalPages > 1

\* the value prop of a column's filter popover: columnFilters[column] || ''
ValueProp(filters, column) ==
  LET entry == Get(ObjectEntries(filters), column)
  IN  IF entry.t = "str" THEN entry.v ELSE <<>>

\* the popover's effect: a changed value prop overwrites the local text
SyncedLocal(newFilters) ==
  IF editColumn # "" /\ ValueProp(newFilters, editColumn) # ValueProp(columnFilters, editColumn)
    THEN ValueProp(newFilters, editColumn)
    ELSE localValue

(***************************************************************************)
(* useColumnVisibility: the effect and the three operations.               *)
(***************************************************************************)
\* the effect on [columnsKey, columns], run after a render with columns cols
RunEffect(cols) ==
  IF cols = {} THEN UNCHANGED visibilityVars
  ELSE IF ~isInitialized THEN
    LET r == FirstReconcile(cols, storedVisibilityRef, lsVisibility, writable)
    IN  /\ isInitialized' = TRUE
        /\ lastOp' = "reconcile"
        /\ thrown' = r.thrown
        /\ visibleColumns' = IF r.thrown THEN visibleColumns ELSE r.visible
        /\ storedVisibilityRef' = r.ref
        /\ lsVisibility' = r.ls
        /\ prevColumnsKey' = IF r.thrown THEN prevColumnsKey ELSE cols
  ELSE IF prevColumnsKey = cols THEN UNCHANGED visibilityVars
  ELSE
    LET r == ColumnSync(cols, visibleColumns, storedVisibilityRef, lsVisibility, writable)
    IN  /\ prevColumnsKey' = cols
        /\ lastOp' = "sync"
        /\ visibleColumns' = r.visible
        /\ storedVisibilityRef' = r.ref
        /\ lsVisibility' = r.ls
        /\ UNCHANGED <<isInitialized, thrown>>

\* toggleColumn that persists a fresh map holding the toggled column alone
ToggleOutcome_FreshMap(column, visible, ref, ls, canWrite) ==
  LET isCurrentlyVisible == column \in visible
      stored == JObj(With(EmptyMap, column, JBool(~isCurrentlyVisible)))
  IN  [visible |-> IF isCurrentlyVisible THEN visible \ {column} ELSE visible \cup {column},
       ref |-> IF canWrite \/ ref.t = "obj" THEN stored ELSE ref,
       ls |-> IF canWrite THEN JSONstringify(stored) ELSE ls]

\* toggleColumn(column): the entry is assigned on the ref's own object before setItem
ToggleOutcome(column, visible, ref, ls, canWrite) ==
  LET isCurrentlyVisible == column \in visible
      base == IF ref.t = "obj" THEN ref.v ELSE EmptyMap
      stored == JObj(With(base, column, JBool(~isCurrentlyVisible)))
  IN  [visible |-> IF isCurrentlyVisible THEN visible \ {column} ELSE visible \cup {column},
       ref |-> IF canWrite \/ ref.t = "obj" THEN stored ELSE ref,
       ls |-> IF canWrite THEN JSONstringify(stored) ELSE ls]

DoToggle(column) ==
  LET r == ToggleOutcome(column, visibleColumns, storedVisibilityRef, lsVisibility, writable)
  IN  /\ visibleColumns' = r.visible
      /\ storedVisibilityRef' = r.ref
      /\ lsVisibility' = r.ls
      /\ lastOp' = "toggle"
      /\ UNCHANGED <<isInitialized, prevColumnsKey, thrown>>

\* setVisibleColumns(newColumns): a fresh map, kept only when setItem succeeds
DoSetVisible(newColumns) ==
  LET stored == JObj([col \in columns |-> JBool(col \in newColumns)])
  IN  /\ visibleColumns' = newColumns
      /\ storedVisibilityRef' = IF writable THEN stored ELSE storedVisibilityRef
      /\ lsVisibility' = IF writable THEN JSONstringify(stored) ELSE lsVisibility
      /\ lastOp' = "set"
      /\ UNCHANGED <<isInitialized, prevColumnsKey, thrown>>

\* resetToDefault(): every current column shown
DoResetToDefault ==
  LET stored == JObj([col \in columns |-> JBool(TRUE)])
  IN  /\ visibleColumns' = columns
      /\ storedVisibilityRef' = IF writable THEN stored ELSE storedVisibilityRef
      /\ lsVisibility' = IF writable THEN JSONstringify(stored) ELSE lsVisibility
      /\ lastOp' = "reset"
      /\ UNCHANGED <<isInitialized, prevColumnsKey, thrown>>

(***************************************************************************)
(* DataGrid: fetches.                                                      *)
(***************************************************************************)
InFlightCount == plantsInFlight[AllDomes] + plantsInFlight[<<"A">>] + plantsInFlight[<<"B">>]

\* the model lets at most MaxInFlight plants fetches overlap
CanFetch == InFlightCount < MaxInFlight

\* loadPlants() up to its await, called by the effect on [selectedDome]
StartLoadPlants(dome) ==
  /\ isLoadingPlants' = TRUE
  /\ error' = NoError
  /\ plantsInFlight' = [plantsInFlight EXCEPT ![dome] = @ + 1]

\* the Refresh button of the pagination bar and the Retry button of the error card
Refresh ==
  /\ ~Crashed
  /\ TopBarRendered \/ (~isLoading /\ error # NoError /\ domes = {})
  /\ ~domesInFlight
  /\ CanFetch
  /\ isLoading' = TRUE
  /\ error' = NoError
  /\ domesInFlight' = TRUE
  /\ UNCHANGED <<domes, selectedDome, allPlants, total, storeDome, columns,
                 isLoadingPlants, currentPage, searchQuery, sortConfig,
                 filterVars, visibilityVars, plantsInFlight, writable, foundVars>>

\* loadDomes() after its await; outcome "ok" | "none" | "throw"
LoadDomesResolve(outcome, fetched) ==
  /\ ~Crashed
  /\ domesInFlight
  /\ domesInFlight' = FALSE
  /\ isLoading' = FALSE
  /\ IF outcome = "throw"
       THEN /\ error' = "Failed to load domes from database"
            /\ UNCHANGED <<domes, selectedDome, isLoadingPlants, plantsInFlight>>
       ELSE /\ domes' = IF outcome = "ok" THEN fetched ELSE {}
            /\ selectedDome' = AllDomes
            \* the effect on [selectedDome] runs only when the scope changed
            /\ IF selectedDome # AllDomes
                 THEN StartLoadPlants(AllDomes)
                 ELSE UNCHANGED <<isLoadingPlants, error, plantsInFlight>>
  /\ UNCHANGED <<allPlants, total, storeDome, columns, currentPage, searchQuery,
                 sortConfig, filterVars, visibilityVars, writable, foundVars>>

\* the dome <select> onChange
SelectDome(dome) ==
  /\ MainRendered
  /\ dome \in domes \cup {AllDomes}
  /\ dome # selectedDome
  /\ CanFetch
  /\ selectedDome' = dome
  /\ currentPage' = 0
  /\ StartLoadPlants(dome)
  /\ UNCHANGED <<domes, allPlants, total, storeDome, columns, isLoading, searchQuery,
                 sortConfig, filterVars, visibilityVars, domesInFlight, writable, foundVars>>

\* loadPlants that empties the Row Store when the fetch throws
LoadPlantsResolve_ClearsRows(dome, outcome, plants) ==
  /\ ~Crashed
  /\ plantsInFlight[dome] > 0
  /\ plantsInFlight' = [plantsInFlight EXCEPT ![dome] = @ - 1]
  /\ isLoadingPlants' = FALSE
  /\ IF outcome = "ok"
       THEN /\ allPlants' = plants
            /\ total' = Len(plants)
            /\ storeDome' = dome
            /\ columns' = IF Len(plants) > 0 THEN ExtractColumns(plants) ELSE columns
            /\ RunEffect(columns')
            /\ UNCHANGED error
       ELSE /\ error' = IF outcome = "throw" THEN "Failed to load plants from database"
                        ELSE error
            /\ allPlants' = IF outcome = "throw" THEN <<>> ELSE allPlants
            /\ total' = IF outcome = "throw" THEN 0 ELSE total
            /\ UNCHANGED <<storeDome, columns, visibilityVars>>
  /\ UNCHANGED <<domes, selectedDome, isLoading, currentPage, searchQuery, sortConfig,
                 filterVars, domesInFlight, writable, foundVars>>

\* loadPlants() after its await, for a request made for 'dome';
\* outcome "ok" (success: true) | "fail" (success: false) | "throw"
LoadPlantsResolve(dome, outcome, plants) ==
  /\ ~Crashed
  /\ plantsInFlight[dome] > 0
  /\ plantsInFlight' = [plantsInFlight EXCEPT ![dome] = @ - 1]
  /\ isLoadingPlants' = FALSE
  /\ IF outcome = "ok"
       THEN /\ allPlants' = plants
            /\ total' = Len(plants)
            /\ storeDome' = dome
            /\ columns' = IF Len(plants) > 0 THEN ExtractColumns(plants) ELSE columns
            /\ RunEffect(columns')
            /\ UNCHANGED error
       ELSE /\ error' = IF outcome = "throw" THEN "Failed to load plants from database"
                        ELSE error
            /\ UNCHANGED <<allPlants, total, storeDome, columns, visibilityVars>>
  /\ UNCHANGED <<domes, selectedDome, isLoading, currentPage, searchQuery, sortConfig,
                 filterVars, domesInFlight, writable, foundVars>>

(***************************************************************************)
(* DataGrid: query, sort, column filters, pages, reset.                    *)
(***************************************************************************)
\* the search <Input> onChange
SetSearchQuery(query) ==
  /\ MainRendered
  /\ query # searchQuery
  /\ searchQuery' = query
  /\ currentPage' = 0
  /\ UNCHANGED <<domes, selectedDome, allPlants, total, storeDome, columns, isLoading,
                 isLoadingPlants, error, sortConfig, filterVars, visibilityVars,
                 fetchVars, writable, foundVars>>

\* handleSort that toggles between ascending and descending only
handleSort_TwoState(column) ==
  /\ TableRendered
  /\ column \in visibleColumnsList
  /\ sortConfig' = IF sortConfig.column = column /\ sortConfig.direction = "asc"
                     THEN [column |-> column, direction |-> "desc"]
                     ELSE [column |-> column, direction |-> "asc"]
  /\ currentPage' = 0
  /\ UNCHANGED <<domes, selectedDome, allPlants, total, storeDome, columns, isLoading,
                 isLoadingPlants, error, searchQuery, filterVars, visibilityVars,
                 fetchVars, writable, foundVars>>

\* handleSort(column), from a header button of the table
handleSort(column) ==
  /\ TableRendered
  /\ column \in visibleColumnsList
  /\ sortConfig' = IF sortConfig.column = column
                     THEN IF sortConfig.direction = "asc"
                            THEN [column |-> column, direction |-> "desc"]
                            ELSE NoSort
                     ELSE [column |-> column, direction |-> "asc"]
  /\ currentPage' = 0
  /\ UNCHANGED <<domes, selectedDome, allPlants, total, storeDome, columns, isLoading,
                 isLoadingPlants, error, searchQuery, filterVars, visibilityVars,
                 fetchVars, writable, foundVars>>

\* typing into (or choosing in) the filter popover of a column: setLocalValue
SetLocalValue(column, text) ==
  /\ TableRendered
  /\ column \in visibleColumnsList
  \* a boolean column offers a select of All / Yes / No
  /\ column \in booleanColumns => text \in {<<>>, SYes, SNo}
  /\ editColumn' = column
  /\ localValue' = text
  /\ UNCHANGED <<gridVars, columnFilters, lsFilters, visibilityVars, fetchVars, writable, foundVars>>

\* handleColumnFilter that tests the text for emptiness without trimming it
handleColumnFilter_Untrimmed ==
  /\ TableRendered
  /\ editColumn \in visibleColumnsList
  \* Apply is disabled while the text equals the committed one; Enter in the
  \* text input applies regardless
  /\ editColumn \in booleanColumns => localValue # ValueProp(columnFilters, editColumn)
  /\ LET prev == ObjectEntries(columnFilters)
         updated == IF localValue # <<>>
                      THEN JObj(With(prev, editColumn, JStr(localValue)))
                      ELSE JObj(Without(prev, editColumn))
     IN  /\ columnFilters' = updated
         /\ lsFilters' = saveColumnFilters(lsFilters, updated, writable)
         /\ localValue' = SyncedLocal(updated)
  /\ currentPage' = 0
  /\ UNCHANGED <<domes, selectedDome, allPlants, total, storeDome, columns, isLoading,
                 isLoadingPlants, error, searchQuery, sortConfig, editColumn,
                 visibilityVars, fetchVars, writable, foundVars>>

\* handleColumnFilter(column, value), called by the popover's Apply with its local text
handleColumnFilter ==
  /\ TableRendered
  /\ editColumn \in visibleColumnsList
  \* Apply is disabled while the text equals the committed one; Enter in the
  \* text input applies regardless
  /\ editColumn \in booleanColumns => localValue # ValueProp(columnFilters, editColumn)
  /\ LET prev == ObjectEntries(columnFilters)
         updated == IF trim(localValue) # <<>>
                      THEN JObj(With(prev, editColumn, JStr(localValue)))
                      ELSE JObj(Without(prev, editColumn))
     IN  /\ columnFilters' = updated
         /\ lsFilters' = saveColumnFilters(lsFilters, updated, writable)
         /\ localValue' = SyncedLocal(updated)
  /\ currentPage' = 0
  /\ UNCHANGED <<domes, selectedDome, allPlants, total, storeDome, columns, isLoading,
                 isLoadingPlants, error, searchQuery, sortConfig, editColumn,
                 visibilityVars, fetchVars, writable, foundVars>>

\* handleClearColumnFilter(column), called by the popover's Clear and Reset
handleClearColumnFilter(column) ==
  /\ TableRendered
  /\ column \in visibleColumnsList
  /\ \/ trim(ValueProp(columnFilters, column)) # <<>>
     \/ column = editColumn /\ trim(localValue) # <<>>
  /\ LET updated == JObj(Without(ObjectEntries(columnFilters), column))
     IN  /\ columnFilters' = updated
         /\ lsFilters' = saveColumnFilters(lsFilters, updated, writable)
         /\ localValue' = IF column = editColumn THEN <<>> ELSE SyncedLocal(updated)
  /\ currentPage' = 0
  /\ UNCHANGED <<domes, selectedDome, allPlants, total, storeDome, columns, isLoading,
                 isLoadingPlants, error, searchQuery, sortConfig, editColumn,
                 visibilityVars, fetchVars, writable, foundVars>>

\* resetEverything that leaves the sort as it is
resetEverything_KeepsSort ==
  /\ MainRendered
  /\ \/ searchQuery # <<>>
     \/ DOMAIN ObjectEntries(columnFilters) # {}
     \/ sortConfig # NoSort
     \/ Cardinality(visibleColumns) < Cardinality(columns)
  /\ searchQuery' = <<>>
  /\ columnFilters' = JObj(EmptyMap)
  /\ lsFilters' = saveColumnFilters(lsFilters, JObj(EmptyMap), writable)
  /\ localValue' = SyncedLocal(JObj(EmptyMap))
  /\ currentPage' = 0
  /\ DoResetToDefault
  /\ UNCHANGED <<domes, selectedDome, allPlants, total, storeDome, columns, isLoading,
                 isLoadingPlants, error, editColumn, fetchVars, writable, foundVars,
                 sortConfig>>

\* resetEverything(): resetAllFilters() then resetColumnVisibility()
resetEverything ==
  /\ MainRendered
  /\ \/ searchQuery # <<>>
     \/ DOMAIN ObjectEntries(columnFilters) # {}
     \/ sortConfig # NoSort
     \/ Cardinality(visibleColumns) < Cardinality(columns)
  /\ searchQuery' = <<>>
  /\ columnFilters' = JObj(EmptyMap)
  /\ lsFilters' = saveColumnFilters(lsFilters, JObj(EmptyMap), writable)
  /\ localValue' = SyncedLocal(JObj(EmptyMap))
  /\ sortConfig' = NoSort
  /\ currentPage' = 0
  /\ DoResetToDefault
  /\ UNCHANGED <<domes, selectedDome, allPlants, total, storeDome, columns, isLoading,
                 isLoadingPlants, error, editColumn, fetchVars, writable, foundVars>>

\* the Previous button
PreviousPage ==
  /\ TopBarRendered
  /\ currentPage # 0
  /\ currentPage' = Max(0, currentPage - 1)
  /\ UNCHANGED <<domes, selectedDome, allPlants, total, storeDome, columns, isLoading,
                 isLoadingPlants, error, searchQuery, sortConfig, filterVars,
                 visibilityVars, fetchVars, writable, foundVars>>

\* the Next button
NextPage ==
  /\ TopBarRendered
  /\ currentPage < totalPages - 1
  /\ currentPage' = Min(totalPages - 1, currentPage + 1)
  /\ UNCHANGED <<domes, selectedDome, allPlants, total, storeDome, columns, isLoading,
                 isLoadingPlants, error, searchQuery, sortConfig, filterVars,
                 visibilityVars, fetchVars, writable, foundVars>>

\* a checkbox of the Columns popover in the pagination bar
ToggleColumnBox(column) ==
  /\ TopBarRendered
  /\ column \in columns
  /\ DoToggle(column)
  /\ UNCHANGED <<gridVars, filterVars, fetchVars, writable, foundVars>>

(***************************************************************************)
(* The hook's operations called directly (its returned API), and the       *)
(* storage environment.                                                    *)
(***************************************************************************)
toggleColumn(column) ==
  /\ ~Crashed /\ isInitialized
  /\ column \in columns
  /\ DoToggle(column)
  /\ UNCHANGED <<gridVars, filterVars, fetchVars, writable, foundVars>>

setVisibleColumns(newColumns) ==
  /\ ~Crashed /\ isInitialized
  /\ DoSetVisible(newColumns)
  /\ UNCHANGED <<gridVars, filterVars, fetchVars, writable, foundVars>>

resetToDefault ==
  /\ ~Crashed /\ isInitialized
  /\ DoResetToDefault
  /\ UNCHANGED <<gridVars, filterVars, fetchVars, writable, foundVars>>

\* the browser's storage starts rejecting writes (quota exceeded, storage disabled)
StorageFails ==
  /\ writable
  /\ writable' = FALSE
  /\ UNCHANGED <<gridVars, filterVars, visibilityVars, fetchVars, foundVars>>

(***************************************************************************)
(* Inputs.                                                                 *)
(***************************************************************************)
DomeA == <<"A">>
DomeB == <<"B">>
Scopes == {AllDomes, DomeA, DomeB}

SFern == <<"f","e","r","n">>
SMoss == <<"m","o","s","s">>

\* the n plants the server returns
MkPlants(dome, n) ==
  [i \in 1..n |->
     [id |-> JNum(i),
      name |-> JStr(IF i % 2 = 1 THEN SFern ELSE SMoss)]]

\* the sizes of the answers: one page, more than one page
GridCounts == {1, ITEMS_PER_PAGE + 1}
GridResponses(dome) == {MkPlants(dome, n) : n \in GridCounts}
GridQueries == {<<>>, <<"m","o">>}
GridTexts == {<<"F">>}
GridDomes == {DomeA}
GridScopes == {AllDomes, DomeA}
GridSortColumns == {"name"}
GridFilterColumns == {"name"}
GridToggleColumns == {"image_count"}

NoFetches == [d \in Scopes |-> 0]

\* the first render of DataGrid followed by its two mount effects
MountWith(visText, filterText, canWrite) ==
  /\ domes = {}
  /\ selectedDome = AllDomes
  /\ allPlants = <<>>
  /\ total = 0
  /\ storeDome = AllDomes
  /\ columns = {}
  /\ isLoading = TRUE
  /\ isLoadingPlants = TRUE
  /\ error = NoError
  /\ currentPage = 0
  /\ searchQuery = <<>>
  /\ sortConfig = NoSort
  /\ lsFilters = filterText
  /\ columnFilters = loadColumnFilters(filterText)
  /\ editColumn = ""
  /\ localValue = <<>>
  /\ writable = canWrite
  /\ foundVisibility = visText
  /\ foundFilters = filterText
  /\ storedVisibilityRef = LoadVisibility(visText, canWrite).ref
  /\ lsVisibility = LoadVisibility(visText, canWrite).ls
  /\ visibleColumns = {}
  /\ isInitialized = FALSE
  /\ prevColumnsKey = {}
  /\ thrown = FALSE
  /\ plantsInFlight = [NoFetches EXCEPT ![AllDomes] = 1]
  /\ domesInFlight = TRUE
  /\ lastOp = "load"

(***************************************************************************)
(* Spec: the grid with its fetches, from a first visit (empty storage).    *)
(***************************************************************************)
Init == MountWith(Absent, Absent, TRUE) /\ engine = "laterFirst" /\ GridAlone

Next ==
  \/ Refresh
  \/ \E outcome \in {"ok", "none", "throw"} : LoadDomesResolve(outcome, GridDomes)
  \/ \E dome \in GridScopes : SelectDome(dome)
  \/ \E dome \in GridScopes, outcome \in {"ok", "fail", "throw"} :
       \E plants \in GridResponses(dome) : LoadPlantsResolve(dome, outcome, plants)
  \/ \E query \in GridQueries : SetSearchQuery(query)
  \/ \E column \in GridSortColumns : handleSort(column)
  \/ \E column \in GridFilterColumns, text \in GridTexts : SetLocalValue(column, text)
  \/ handleColumnFilter
  \/ \E column \in GridFilterColumns : handleClearColumnFilter(column)
  \/ resetEverything
  \/ PreviousPage
  \/ NextPage
  \/ \E column \in GridToggleColumns : ToggleColumnBox(column)

Spec == Init /\ [][Next]_vars

(***************************************************************************)
(* SpecFilter: the Filter Engine over small Row Stores.  The grid has      *)
(* finished loading one of the Row Stores below; the user then edits the   *)
(* global query and the column filters.                                    *)
(***************************************************************************)
SAb == <<"a","b">>
SB == <<"B">>

\* the rows of the filter specification: native booleans, boolean-like strings,
\* plain text, null and missing fields, and a field (id) that is not a column
FilterRows ==
  { [id |-> JNum(1), name |-> JStr(SAb), edible |-> JBool(TRUE)],
    [id |-> JNum(2), name |-> JStr(SB), edible |-> JBool(FALSE)],
    [name |-> JNull, edible |-> JStr(<<"T","r","u","e">>)],
    [name |-> JStr(SAb), edible |-> JNull],
    [name |-> JStr(SB), edible |-> JStr(SYes)],
    [name |-> JStr(SAb)] }

RECURSIVE SeqsUpTo(_, _)
SeqsUpTo(S, n) ==
  IF n = 0 THEN {<<>>}
  ELSE LET shorter == SeqsUpTo(S, n - 1)
       IN  shorter \cup {Append(q, x) : q \in shorter, x \in S}

FilterStores == SeqsUpTo(FilterRows, MaxRows) \ {<<>>}
\* the global queries typed: upper case, white space only, a digit that occurs
\* in the id field alone, and a letter of "null", "undefined" and "true"
FilterQueries == {<<>>, <<"B">>, <<" ">>, <<"2">>, <<"u">>}
FilterTexts == {<<" ">>, SB, SYes, SNo}

\* the state once loadDomes and the first loadPlants have resolved with 'plants'
LoadedWith(plants) ==
  LET cols == ExtractColumns(plants)
      r == FirstReconcile(cols, JObj(EmptyMap), Absent, TRUE)
  IN  /\ domes = {DomeA}
      /\ selectedDome = AllDomes
      /\ allPlants = plants
      /\ total = Len(plants)
      /\ storeDome = AllDomes
      /\ columns = cols
      /\ isLoading = FALSE
      /\ isLoadingPlants = FALSE
      /\ error = NoError
      /\ currentPage = 0
      /\ searchQuery = <<>>
      /\ sortConfig = NoSort
      /\ lsFilters = Absent
      /\ columnFilters = JObj(EmptyMap)
      /\ editColumn = ""
      /\ localValue = <<>>
      /\ writable = TRUE
      /\ foundVisibility = Absent
      /\ foundFilters = Absent
      /\ storedVisibilityRef = r.ref
      /\ lsVisibility = r.ls
      /\ visibleColumns = r.visible
      /\ isInitialized = TRUE
      /\ prevColumnsKey = cols
      /\ thrown = FALSE
      /\ plantsInFlight = NoFetches
      /\ domesInFlight = FALSE
      /\ lastOp = "reconcile"

InitFilter == (\E plants \in FilterStores : LoadedWith(plants)) /\ engine = "laterFirst" /\ GridAlone

NextFilter ==
  \/ \E query \in FilterQueries : SetSearchQuery(query)
  \/ \E column \in columns, text \in FilterTexts : SetLocalValue(column, text)
  \/ handleColumnFilter
  \/ \E column \in columns : handleClearColumnFilter(column)

SpecFilter == InitFilter /\ [][NextFilter]_vars

(***************************************************************************)
(* Properties of the Filter Engine, stated for SpecFilter.                 *)
(***************************************************************************)
\* a row satisfies the global predicate and every active per-column predicate,
\* each evaluated on its own
SatisfiesAll(plant) ==
  /\ QueryActive(searchQuery) => GlobalMatch(plant, searchQuery)
  /\ \A column \in DOMAIN ObjectEntries(columnFilters) :
        trim(ObjectEntries(columnFilters)[column].v) # <<>>
          => ColumnFilterMatch(plant, column, ObjectEntries(columnFilters)[column].v)

KeptIndexes == {i \in 1..Len(allPlants) : SatisfiesAll(allPlants[i])}

\* the j-th smallest kept index
NthKept(j) == CHOOSE i \in KeptIndexes : Cardinality({k \in KeptIndexes : k <= i}) = j

\* C2: the filtered result is the order-preserving sub-sequence of the Row Store
\* made of exactly the rows that satisfy the global predicate and every active
\* per-column predicate.
C2_FilterIsConjunction ==
  /\ Len(filtered) = Cardinality(KeptIndexes)
  /\ \A j \in 1..Len(filtered) : filtered[j] = allPlants[NthKept(j)]

\* C2 witness: a query and a column filter are both active, one row is kept and
\* another is dropped.
C2_Witness ==
  /\ QueryActive(searchQuery)
  /\ \E column \in DOMAIN ObjectEntries(columnFilters) :
        trim(ObjectEntries(columnFilters)[column].v) # <<>>
  /\ Len(filtered) > 0
  /\ Len(filtered) < Len(allPlants)

\* C3: the preview count shown while a column's filter text is edited equals the
\* number of rows the committed pipeline keeps with that text as the column's filter.
C3_PreviewMatchesCommitted ==
  (TableRendered /\ editColumn \in visibleColumnsList /\ localValue # <<>>)
    => previewCount(allPlants, editColumn, localValue, editColumn \in booleanColumns,
                    columnFilters, searchQuery)
       = Len(filteredPlants(allPlants, searchQuery,
                            JObj(With(ObjectEntries(columnFilters), editColumn,
                                      JStr(localValue)))))

\* the columns whose committed filter text is not blank
ActiveFilters ==
  {column \in DOMAIN ObjectEntries(columnFilters) :
     trim(ObjectEntries(columnFilters)[column].v) # <<>>}

\* C16: a row kept by a column filter on a boolean value has the filter text
\* "yes" or "true" (in any case) and the value true, or "no" or "false" and the
\* value false; a text that is none of the four words keeps no boolean row.
C16_BooleanFilterWords ==
  \A column \in ActiveFilters : \A i \in 1..Len(filtered) :
     LET value == Get(filtered[i], column)
         text == toLowerCase(ObjectEntries(columnFilters)[column].v)
     IN  value.t = "bool" =>
           \/ text \in {SYes, STrue} /\ value.v
           \/ text \in {SNo, SFalse} /\ ~value.v

\* some field of the row is not null or undefined and its lower-cased string
\* form contains the lower-cased query
KeptByQuery(plant) ==
  \E k \in DOMAIN plant :
     /\ plant[k].t \notin {"null", "undefined"}
     /\ includes(toLowerCase(ToStr(plant[k])), toLowerCase(searchQuery))

\* C17: with no column filter active, a row is kept exactly when the query is
\* empty or white space only, or some field of the row, displayed as a column or
\* not, is not null or undefined and its lower-cased string form contains the
\* lower-cased query.
C17_GlobalQuery ==
  ActiveFilters = {} =>
    LET keep == {i \in 1..Len(allPlants) :
                   trim(searchQuery) = <<>> \/ KeptByQuery(allPlants[i])}
    IN  /\ Len(filtered) = Cardinality(keep)
        /\ \A i \in 1..Len(allPlants) :
              (\E j \in 1..Len(filtered) : filtered[j] = allPlants[i]) <=> i \in keep

\* C17 witness: the query "2" occurs in the id field alone, which is not a
\* column; the row with id 2 is kept and another row is dropped.
C17_Witness ==
  /\ ActiveFilters = {}
  /\ searchQuery = <<"2">>
  /\ Len(filtered) > 0
  /\ Len(filtered) < Len(allPlants)
  /\ \A j \in 1..Len(filtered) : Get(filtered[j], "id") = JNum(2)

\* C23: a column is boolean exactly when the first row's value is a native
\* boolean or a string equal to "true" or "false" in any case, and the committed
\* filter takes the same decision for the present values of the column as the
\* preview and the display, which read the column's kind.
C23_OneKindDecision ==
  \A column \in columns :
     /\ (column \in booleanColumns) <=> isBooleanValue(Get(allPlants[1], column))
     /\ \A i \in 1..Len(allPlants) :
           ~IsNullish(Get(allPlants[i], column))
             => (LooksBoolean(Get(allPlants[i], column)) <=> column \in booleanColumns)

BlankTexts == {<<>>, <<" ">>, <<" ", " ">>}

\* no entry of the map is empty or white space only
NoBlankEntry(filters) ==
  \A column \in DOMAIN ObjectEntries(filters) :
     trim(ObjectEntries(filters)[column].v) # <<>>

\* C25: a column filter whose text is empty or white space only restricts no row
\* in the committed result (the result is the one without the column's entry)
\* and in the preview (the count is that of the rows the preview keeps by the
\* query and the other columns' filters); committing such a text removes
\* the column's entry from the committed and from the persisted map, and neither
\* map ever holds such an entry.
C25_BlankFilterIsNoFilter ==
  /\ [](/\ \A column \in columns : \A blank \in BlankTexts :
             /\ filteredPlants(allPlants, searchQuery,
                               JObj(With(ObjectEntries(columnFilters), column, JStr(blank))))
                  = filteredPlants(allPlants, searchQuery,
                                   JObj(Without(ObjectEntries(columnFilters), column)))
             /\ previewCount(allPlants, column, blank, column \in booleanColumns,
                             columnFilters, searchQuery)
                  = Len(ApplyOtherFilters(ApplySearch(allPlants, searchQuery),
                                          ObjectEntries(columnFilters), column))
        /\ NoBlankEntry(columnFilters)
        /\ NoBlankEntry(loadColumnFilters(lsFilters)))
  /\ [][(handleColumnFilter /\ trim(localValue) = <<>>)
          => /\ editColumn \notin DOMAIN ObjectEntries(columnFilters')
             /\ editColumn \notin DOMAIN ObjectEntries(loadColumnFilters(lsFilters'))
             /\ lsFilters' = JSONstringify(columnFilters')]_vars

\* C25 witness: a white-space text was committed for a column; the committed and
\* the persisted map hold no entry for it and every row is kept.
C25_Witness ==
  /\ editColumn # "" /\ localValue = <<" ">>
  /\ lsFilters = JSONstringify(JObj(EmptyMap))
  /\ columnFilters = JObj(EmptyMap)
  /\ searchQuery = <<>>
  /\ Len(filtered) = Len(allPlants)

(***************************************************************************)
(* SpecStore: the two preference stores across column-set changes, with    *)
(* storage a former session left behind and every write succeeding.        *)
(* SpecMalformed: the same with malformed stored values.                   *)
(* SpecFaulty: well-formed stored values and localStorage.setItem that     *)
(* throws from some moment on (quota exceeded, storage disabled).          *)
(***************************************************************************)
BoolMap(shown, hidden) ==
  JObj([col \in shown \cup hidden |-> JBool(col \in shown)])

\* the dataset shapes the server answers with (image_count is always added)
StoreShapes == {{"name", "dome"}, {"name", "dome", "qty"}, {"name", "qty"}}

ShapedPlant(shape) == [col \in shape \cup {"id"} |-> IF col = "id" THEN JNum(1) ELSE JStr(SAb)]

StoreResponses == {<<ShapedPlant(shape)>> : shape \in StoreShapes}

\* what an earlier session can have stored under the visibility key
StoredVisibility ==
  { Absent,
    JSONstringify(JArr(<<"name", "dome">>)),
    JSONstringify(JArr(<<"dome", "old">>)),
    JSONstringify(JArr(<<>>)),
    JSONstringify(BoolMap({"dome"}, {"name"})),
    JSONstringify(BoolMap({"name", "image_count"}, {"qty"})) }

\* malformed values: corrupt text, JSON of another shape, entries of another type
MalformedVisibility ==
  { Corrupt, EmptyText,
    JSONstringify(JNull),
    JSONstringify(JNum(5)),
    JSONstringify(JStr(SAb)),
    JSONstringify(JObj([col \in {"name"} |-> JStr(SNo)])) }

MalformedFilters ==
  { Corrupt,
    JSONstringify(JNull),
    JSONstringify(JNum(5)),
    JSONstringify(JStr(SAb)),
    JSONstringify(JArr(<<"name">>)),
    JSONstringify(JObj([col \in {"name"} |-> JNum(5)])) }

StoredFilters == {Absent, JSONstringify(JObj([col \in {"name"} |-> JStr(SB)]))}

StoreTexts == {<<"a">>}

InitMalformed ==
  /\ \/ \E visText \in MalformedVisibility : MountWith(visText, Absent, TRUE)
     \/ \E filterText \in StoredFilters \cup MalformedFilters :
           MountWith(Absent, filterText, TRUE)
  /\ engine = "laterFirst" /\ GridAlone

InitStore ==
  /\ \E visText \in StoredVisibility : MountWith(visText, Absent, TRUE)
  /\ engine = "laterFirst" /\ GridAlone

NextStore ==
  \/ LoadDomesResolve("ok", {DomeA})
  \/ \E dome \in GridScopes : SelectDome(dome)
  \/ \E dome \in GridScopes, outcome \in {"ok", "throw"} :
       \E plants \in StoreResponses : LoadPlantsResolve(dome, outcome, plants)
  \/ \E column \in columns : toggleColumn(column)
  \/ \E newColumns \in SUBSET columns : setVisibleColumns(newColumns)
  \/ resetToDefault

SpecStore == InitStore /\ [][NextStore]_vars

NextMalformed ==
  \/ NextStore
  \/ \E text \in StoreTexts : SetLocalValue("name", text)
  \/ handleColumnFilter
  \/ handleClearColumnFilter("name")

SpecMalformed == InitMalformed /\ [][NextMalformed]_vars

FaultyShapes == {{"name", "dome"}, {"name", "qty"}}
FaultyResponses == {<<ShapedPlant(shape)>> : shape \in FaultyShapes}
FaultyVisibility == {Absent, JSONstringify(BoolMap({"dome"}, {"name"}))}

InitFaulty ==
  /\ \E visText \in FaultyVisibility, canWrite \in BOOLEAN :
        MountWith(visText, Absent, canWrite)
  /\ engine = "laterFirst" /\ GridAlone

FaultyColumns == {"name"}

NextFaulty ==
  \/ LoadDomesResolve("ok", {DomeA})
  \/ \E dome \in GridScopes : SelectDome(dome)
  \/ \E dome \in GridScopes : \E plants \in FaultyResponses :
       LoadPlantsResolve(dome, "ok", plants)
  \/ \E column \in FaultyColumns : toggleColumn(column)
  \/ \E hidden \in FaultyColumns : setVisibleColumns(columns \ {hidden})
  \/ resetToDefault
  \/ StorageFails
  \/ \E text \in StoreTexts : SetLocalValue("dome", text)
  \/ handleColumnFilter
  \/ handleClearColumnFilter("dome")

SpecFaulty == InitFaulty /\ [][NextFaulty]_vars

(***************************************************************************)
(* Properties of the preference stores, stated for SpecStore,              *)
(* SpecMalformed and SpecFaulty.                                           *)
(***************************************************************************)
\* the persisted visibility value is the JSON text of an object map
PersistedIsMap == lsVisibility.t = "json" /\ lsVisibility.v.t = "obj"
Persisted == lsVisibility.v.v

\* the hook's load found the legacy list format
FoundLegacy == foundVisibility.t = "json" /\ foundVisibility.v.t = "arr"
Listed == {foundVisibility.v.v[i] : i \in 1..Len(foundVisibility.v.v)}

\* the columns the found value had an entry for
FoundEntries ==
  IF foundVisibility.t = "json" /\ foundVisibility.v.t = "obj" THEN DOMAIN foundVisibility.v.v
  ELSE IF FoundLegacy THEN Listed
  ELSE {}

\* C6 (SpecStore): once reconciled, every current column has an entry in the
\* persisted map and the entry says whether the column is rendered; right after
\* the reconciliation a column that had no stored entry is shown with entry true.
C6_PersistedMatchesRendered ==
  isInitialized =>
    /\ ~thrown
    /\ PersistedIsMap
    /\ \A col \in columns :
          /\ col \in DOMAIN Persisted
          /\ Persisted[col] = JBool(col \in visibleColumnsList)
    /\ lastOp = "reconcile" =>
          \A col \in columns \ FoundEntries :
             col \in visibleColumnsList /\ Persisted[col] = JBool(TRUE)

\* C6 witness: the column set changed while a current column is hidden.
C6_Witness ==
  /\ lastOp = "sync"
  /\ \E col \in columns : col \notin visibleColumns
  /\ \E col \in columns : col \in visibleColumns

\* C7 (SpecStore): after the load of a legacy list and the first reconciliation,
\* every current column is shown, listed or not, and the persisted value is an
\* object map with entry true for every current column.
C7_LegacyListMigrated ==
  (FoundLegacy /\ lastOp = "reconcile") =>
    /\ visibleColumnsList = columns
    /\ PersistedIsMap
    /\ \A col \in columns : col \in DOMAIN Persisted /\ Persisted[col] = JBool(TRUE)

\* C7 witness: a legacy list was migrated against columns of which some are
\* listed and some are not.
C7_Witness ==
  /\ FoundLegacy /\ lastOp = "reconcile"
  /\ columns \cap Listed # {}
  /\ columns \ Listed # {}
  /\ visibleColumns = columns

\* C8 as stated: after the first read of a legacy list, a current column is shown
\* exactly when it is listed, and so says the persisted map.
C8_UnlistedHidden ==
  (FoundLegacy /\ lastOp = "reconcile") =>
    /\ PersistedIsMap
    /\ \A col \in columns :
          /\ (col \in visibleColumnsList) = (col \in Listed)
          /\ col \in DOMAIN Persisted /\ Persisted[col] = JBool(col \in Listed)

\* C8 amended (SpecStore): the load of a legacy list persists at once the map
\* with true for every listed column; after the first reconciliation the listed
\* columns still have entry true and every other current column is shown too,
\* with entry true.
C8_UnlistedShown ==
  /\ (FoundLegacy /\ lastOp = "load") =>
        lsVisibility = JSONstringify(JObj([col \in Listed |-> JBool(TRUE)]))
  /\ (FoundLegacy /\ lastOp = "reconcile") =>
        /\ PersistedIsMap
        /\ \A col \in Listed : col \in DOMAIN Persisted /\ Persisted[col] = JBool(TRUE)
        /\ \A col \in columns \ Listed :
              /\ col \in visibleColumnsList
              /\ col \in DOMAIN Persisted /\ Persisted[col] = JBool(TRUE)

\* C8 witness: a legacy list naming a column that no longer exists was read
\* against columns it does not list.
C8_Witness ==
  /\ FoundLegacy /\ lastOp = "reconcile"
  /\ Listed \ columns # {}
  /\ \E col \in columns \ Listed : col \in visibleColumns

\* C18 (SpecStore): toggleColumn(column) flips that column in the visible set and
\* in the persisted map, leaves every other column as it was in both, persists
\* the whole map (every entry it held before, stale ones included), and applied
\* twice gives back the visible set and the persisted map.
C18_ToggleFlipsOne ==
  isInitialized =>
    \A column \in columns :
      LET once == ToggleOutcome(column, visibleColumns, storedVisibilityRef,
                                lsVisibility, writable)
          twice == ToggleOutcome(column, once.visible, once.ref, once.ls, writable)
          after == once.ls.v.v
      IN  /\ (column \in once.visible) # (column \in visibleColumns)
          /\ once.visible \ {column} = visibleColumns \ {column}
          /\ PersistedIsMap
          /\ once.ls.t = "json" /\ once.ls.v.t = "obj"
          /\ DOMAIN after = DOMAIN Persisted
          /\ after[column] = JBool(column \in once.visible)
          /\ after[column] # Persisted[column]
          /\ \A other \in (DOMAIN Persisted) \ {column} : after[other] = Persisted[other]
          /\ once.ref = once.ls.v
          /\ twice.visible = visibleColumns
          /\ twice.ls = lsVisibility

\* C18 witness: a column was toggled off while another column is shown and the
\* persisted map holds the entry of a column that no longer exists.
C18_Witness ==
  /\ lastOp = "toggle"
  /\ \E column \in columns : column \notin visibleColumns /\ Persisted[column] = JBool(FALSE)
  /\ \E column \in columns : column \in visibleColumns /\ Persisted[column] = JBool(TRUE)
  /\ (DOMAIN Persisted) \ columns # {}

(***************************************************************************)
(* SpecSurvive: the preferences across Row Store replacements.  A former   *)
(* session may have left a column filter; the user hides and shows columns *)
(* and edits the filter while scope changes replace the Row Store with     *)
(* rows of other shapes.                                                   *)
(***************************************************************************)
InitSurvive ==
  /\ \E filterText \in StoredFilters : MountWith(Absent, filterText, TRUE)
  /\ engine = "laterFirst" /\ GridAlone

NextSurvive ==
  \/ LoadDomesResolve("ok", {DomeA})
  \/ \E dome \in GridScopes : SelectDome(dome)
  \/ \E dome \in GridScopes, outcome \in {"ok", "throw"} :
       \E plants \in StoreResponses : LoadPlantsResolve(dome, outcome, plants)
  \/ \E column \in columns : toggleColumn(column)
  \/ \E text \in StoreTexts : SetLocalValue("name", text)
  \/ handleColumnFilter
  \/ handleClearColumnFilter("name")

SpecSurvive == InitSurvive /\ [][NextSurvive]_vars

\* the column is hidden: not shown while it is a current column, or stored with
\* entry false while the dataset shape lacks it
HiddenOrRemembered(col, cols, visible, ref) ==
  IF col \in cols THEN col \notin visible ELSE StoredGet(ref, col) = JBool(FALSE)

StoreColumns == UNION StoreShapes \cup {"image_count"}

\* C21 (SpecSurvive): a step that starts or resolves a plants fetch keeps every
\* hidden column hidden, also across shapes that lack the column (its stored
\* entry false is kept and read when the column is current again), and leaves
\* the committed column-filter map as it was.
C21_PreferencesSurviveReplacement ==
  [][plantsInFlight' # plantsInFlight =>
       /\ columnFilters' = columnFilters
       /\ isInitialized =>
             \A col \in StoreColumns :
                HiddenOrRemembered(col, columns, visibleColumns, storedVisibilityRef)
                  => HiddenOrRemembered(col, columns', visibleColumns',
                                        storedVisibilityRef')]_vars

\* C21 witness: after a column-set change, "qty" is a current column and hidden,
\* "dome" is stored as hidden while the shape lacks it, and a column filter is
\* committed.
C21_Witness ==
  /\ lastOp = "sync"
  /\ "qty" \in columns /\ "qty" \notin visibleColumns
  /\ "dome" \notin columns /\ StoredGet(storedVisibilityRef, "dome") = JBool(FALSE)
  /\ DOMAIN ObjectEntries(columnFilters) = {"name"}

\* C26 (SpecStore): once the columns have been reconciled, the visible set holds
\* current columns only, so a column that left the dataset shape has left the
\* visible set with the column-set change, and so does the rendered column list.
C26_VisibleWithinColumns ==
  isInitialized =>
    /\ visibleColumns \subseteq columns
    /\ visibleColumnsList \subseteq columns

\* C26 witness: nothing was stored before the session; "dome" was shown, left the
\* dataset shape with the last column-set change (its stored entry is deleted
\* for shown columns only) and is not in the visible set.
C26_Witness ==
  /\ foundVisibility = Absent
  /\ lastOp = "sync"
  /\ "dome" \notin columns
  /\ PersistedIsMap /\ "dome" \notin DOMAIN Persisted
  /\ "dome" \notin visibleColumns
  /\ visibleColumns # {}

(***************************************************************************)
(* SpecLegacy: the session that follows a session of the list-format       *)
(* implementation of the visibility store.  That implementation wrote the  *)
(* array of the visible column names under its own key with its toggle,    *)
(* set and reset operations; the current implementation then mounts on the *)
(* storage it left.                                                        *)
(***************************************************************************)
STORAGE_KEY == "dataGrid_columnVisibility"
STORAGE_KEY_ListFormat == "dataGrid_visibleColumns"
FILTERS_STORAGE_KEY == "dataGrid_columnFilters"
StorageKeys == {STORAGE_KEY, STORAGE_KEY_ListFormat, FILTERS_STORAGE_KEY}

\* list format: localStorage.setItem(STORAGE_KEY, JSON.stringify(visibleArray))
ListFormatWrite(storage, visibleArray) ==
  [storage EXCEPT ![STORAGE_KEY_ListFormat] = JSONstringify(JArr(visibleArray))]

\* list format, toggleColumn: Array.from of the set after delete or add
ListToggled(visibleArray, column) ==
  IF \E i \in 1..Len(visibleArray) : visibleArray[i] = column
    THEN SelectSeq(visibleArray, LAMBDA col : col # column)
    ELSE Append(visibleArray, column)

\* list format, resetToDefault: Array.from(new Set(columns))
ListReset == <<"name", "dome", "image_count">>

\* the arrays the list-format session ends with: after a reset, after one toggle
\* and after two toggles (setVisibleColumns writes such arrays as well)
ListFormatArrays ==
  {ListReset}
    \cup {ListToggled(ListReset, c) : c \in {"name", "dome", "image_count"}}
    \cup {ListToggled(ListToggled(ListReset, c), d) : c, d \in {"name", "dome", "image_count"}}

EmptyStorage == [key \in StorageKeys |-> Absent]

InitLegacy ==
  /\ \E visibleArray \in ListFormatArrays :
        LET storage == ListFormatWrite(EmptyStorage, visibleArray)
        IN  /\ MountWith(storage[STORAGE_KEY], storage[FILTERS_STORAGE_KEY], TRUE)
            /\ lsVisibleColumns = storage[STORAGE_KEY_ListFormat]
  /\ engine = "laterFirst"
  /\ lsLanguage = Absent
  /\ readable = TRUE
  /\ defaultLanguage = <<>>
  /\ browserLanguage = [t |-> "str", v |-> <<"e","n","-","U","S">>]
  /\ currentLanguage = <<>>
  /\ providerMounted = FALSE

NextLegacy ==
  \/ LoadDomesResolve("ok", {DomeA})
  \/ \E dome \in GridScopes : SelectDome(dome)
  \/ \E dome \in GridScopes : \E plants \in StoreResponses :
       LoadPlantsResolve(dome, "ok", plants)
  \/ \E column \in columns : toggleColumn(column)

SpecLegacy == InitLegacy /\ [][NextLegacy]_vars

\* C27 (SpecLegacy): the array the list-format implementation wrote is what the
\* current implementation's load reads; it is recognised as the legacy format and
\* migrated to the map with true for the listed columns.
C27_ListFormatFound ==
  /\ foundVisibility = lsVisibleColumns
  /\ FoundLegacy
  /\ isInitialized => \A col \in Listed : StoredGet(storedVisibilityRef, col).t = "bool"

\* C9 (SpecFaulty): with writes failing, the reconciliation after a column-set
\* change continues from the in-memory state: a column present before and after
\* keeps its visibility.
C9_SyncKeepsInMemoryVisibility ==
  [][(isInitialized /\ prevColumnsKey' # prevColumnsKey)
       => \A col \in columns \cap columns' :
             (col \in visibleColumns') = (col \in visibleColumns)]_vars

\* C10 (SpecMalformed): a malformed stored value is treated as absent: nothing
\* throws at load, in the filter memo or in the reconciliation, the column
\* filters start as the empty map and every column starts shown.
C10_MalformedTreatedAsAbsent ==
  /\ ~thrown
  /\ ~RenderThrows
  /\ (foundFilters \in MalformedFilters /\ editColumn = "")
        => DOMAIN ObjectEntries(columnFilters) = {}
  /\ (foundVisibility \in MalformedVisibility /\ lastOp = "reconcile")
        => visibleColumnsList = columns

(***************************************************************************)
(* SpecSort: the Sort Engine over small Row Stores.  The grid has finished *)
(* loading one of the Row Stores below in a browser with one of the two    *)
(* engines; the user then clicks column headers and edits the global query.*)
(***************************************************************************)
SAB == <<"A","b">>
SUnknown == <<"u","n","k","n","o","w","n">>

\* rows with text, quantities, numbers and booleans; rows 1 and 3 agree on name,
\* rank and edible; rows 4 and 5 lack a name, row 5 lacks every sortable value
SortRow(n) ==
  CASE n = 1 -> [id |-> JNum(1), name |-> JStr(SAb), qty |-> JStr(<<"6","+">>),
                 rank |-> JNum(2), edible |-> JBool(TRUE)]
    [] n = 2 -> [id |-> JNum(2), name |-> JStr(SB), qty |-> JStr(<<"1","0">>),
                 rank |-> JNum(1), edible |-> JBool(FALSE)]
    [] n = 3 -> [id |-> JNum(3), name |-> JStr(SAb), qty |-> JStr(<<"5">>),
                 rank |-> JNum(2), edible |-> JBool(TRUE)]
    [] n = 4 -> [id |-> JNum(4), name |-> JNull, qty |-> JStr(SUnknown),
                 rank |-> JNum(3), edible |-> JBool(FALSE)]
    [] n = 5 -> [id |-> JNum(5), name |-> JNull, qty |-> JNull,
                 rank |-> JNull, edible |-> JNull]
    [] OTHER -> [id |-> JNum(6), name |-> JStr(SAB), qty |-> JStr(<<"5","+">>),
                 rank |-> JNum(10), edible |-> JBool(TRUE)]
SortRows == {SortRow(n) : n \in 1..6}

\* quantities "6+", "10", "5", "unknown" in this order
QtyExample == <<SortRow(1), SortRow(2), SortRow(3), SortRow(4)>>

SortStores == (SeqsUpTo(SortRows, MaxSortRows) \ {<<>>}) \cup {QtyExample}
SortQueries == {<<>>, <<"b">>}

InitSort == (\E plants \in SortStores : LoadedWith(plants)) /\ engine \in Engines /\ GridAlone

NextSort ==
  \/ \E column \in columns : handleSort(column)
  \/ \E query \in SortQueries : SetSearchQuery(query)

SpecSort == InitSort /\ [][NextSort]_vars

(***************************************************************************)
(* SpecPages: pagination over Row Stores of one row, of exactly one and    *)
(* two pages, and of one row more than that.  The user sorts, searches and *)
(* turns pages.                                                            *)
(***************************************************************************)
PageCounts ==
  {1, ITEMS_PER_PAGE, ITEMS_PER_PAGE + 1, 2 * ITEMS_PER_PAGE, 2 * ITEMS_PER_PAGE + 1}

\* n plants with a numeric column, in no particular order of it
RankedPlants(n) ==
  [i \in 1..n |->
     [id |-> JNum(i),
      name |-> JStr(IF i % 2 = 1 THEN SFern ELSE SMoss),
      rank |-> JNum((i * 7) % 5)]]

PageQueries == {<<>>, <<"m","o">>, <<"f","e">>}

InitPages ==
  /\ \E n \in PageCounts : LoadedWith(RankedPlants(n))
  /\ engine \in Engines /\ GridAlone

NextPages ==
  \/ handleSort("rank")
  \/ \E query \in PageQueries : SetSearchQuery(query)
  \/ PreviousPage
  \/ NextPage

SpecPages == InitPages /\ [][NextPages]_vars

\* pages 0 .. n-1 of the rows, one after the other
RECURSIVE ConcatPages(_, _)
ConcatPages(rows, n) ==
  IF n = 0 THEN <<>> ELSE ConcatPages(rows, n - 1) \o PageOf(rows, n - 1)

\* C15: totalPages is the least number of pages of ITEMS_PER_PAGE rows that hold
\* the filtered-and-sorted sequence, the pages 0 .. totalPages-1 one after the
\* other are that sequence, and a page index from totalPages on gives no rows.
C15_PagesPartitionRows ==
  LET rows == filteredAndSortedPlants
  IN  /\ totalPages * ITEMS_PER_PAGE >= Len(rows)
      /\ totalPages > 0 => (totalPages - 1) * ITEMS_PER_PAGE < Len(rows)
      /\ totalPages >= 0
      /\ ConcatPages(rows, totalPages) = rows
      /\ \A page \in totalPages..(totalPages + 2) : PageOf(rows, page) = <<>>

\* C15 witness: the last of three pages of a sorted sequence is shown.
C15_Witness ==
  /\ sortConfig # NoSort
  /\ totalPages = 3
  /\ currentPage = 2
  /\ Len(paginatedPlants) = 1

(***************************************************************************)
(* Properties of the Sort Engine, stated for SpecSort.                     *)
(***************************************************************************)
\* the row has no value (null or undefined) in the sort column
Lacks(plant) == IsNullish(Get(plant, sortConfig.column))

\* the row occurs exactly once in the sequence, and where
Once(rows, plant) == Cardinality({k \in 1..Len(rows) : rows[k] = plant}) = 1
Pos(rows, plant) == CHOOSE k \in 1..Len(rows) : rows[k] = plant

\* C11: in both directions, every row that lacks a value in the sort column comes
\* after every row that has one.
C11_NullsLast ==
  sortConfig # NoSort =>
    \A i, j \in 1..Len(filteredAndSortedPlants) :
       (i < j /\ Lacks(filteredAndSortedPlants[i])) => Lacks(filteredAndSortedPlants[j])

\* C11 witness: a descending sort of a sequence in which a row lacking the value
\* stood in front of a row having it.
C11_Witness ==
  /\ sortConfig.direction = "desc"
  /\ \E i, j \in 1..Len(filtered) : i < j /\ Lacks(filtered[i]) /\ ~Lacks(filtered[j])

\* two rows the active comparator does not order: both lack the value, or the
\* comparator answers 0
EqualUnderComparator(a, b) ==
  \/ Lacks(a) /\ Lacks(b)
  \/ ~Lacks(a) /\ ~Lacks(b) /\ comparePlants(a, b, sortConfig) = 0

\* C12: the sort is stable: two rows that are equal under the comparator, or that
\* both lack the value, keep the order they had in the filtered sequence.
C12_SortIsStable ==
  sortConfig # NoSort =>
    \A i, j \in 1..Len(filtered) :
       (/\ i < j
        /\ Once(filtered, filtered[i]) /\ Once(filtered, filtered[j])
        /\ EqualUnderComparator(filtered[i], filtered[j]))
         => Pos(filteredAndSortedPlants, filtered[i]) < Pos(filteredAndSortedPlants, filtered[j])

\* the tri-state toggle: what a click on a column's header makes of the sort state
ToggledSort(config, column) ==
  IF config.column # column THEN [column |-> column, direction |-> "asc"]
  ELSE IF config.direction = "asc" THEN [column |-> column, direction |-> "desc"]
  ELSE NoSort

SortableColumns == {"name", "qty", "rank", "edible", "image_count"}

\* C13: a click on the sorted column's header goes from ascending to descending
\* and from descending to no sort; a click on any other column's header, and a
\* click when nothing is sorted, gives that column ascending.
C13_SortToggleCycle ==
  [][\A column \in SortableColumns :
        handleSort(column) => sortConfig' = ToggledSort(sortConfig, column)]_vars

\* C13 witness: a column is sorted descending (its header was clicked twice).
C13_Witness ==
  /\ sortConfig.direction = "desc"
  /\ sortConfig.column \in SortableColumns

\* the number parsed from a row's quantity
QtyNumber(plant) == extractNumber(ToStr(Get(plant, "qty")))
HasQty(plant) == ~IsNullish(Get(plant, "qty"))

\* C14: sorted by quantity ascending, the quantities a number can be parsed from
\* come first, in increasing numeric order; descending they come last, in
\* decreasing numeric order; "6+", "10", "5", "unknown" ascending is
\* "5", "6+", "10", "unknown".
C14_QuantityOrder ==
  sortConfig.column = "qty" =>
    /\ \A i, j \in 1..Len(filteredAndSortedPlants) :
          LET a == filteredAndSortedPlants[i]
              b == filteredAndSortedPlants[j]
          IN  (i < j /\ HasQty(a) /\ HasQty(b)) =>
                IF sortConfig.direction = "asc"
                  THEN /\ QtyNumber(b).ok => QtyNumber(a).ok
                       /\ (QtyNumber(a).ok /\ QtyNumber(b).ok) => QtyNumber(a).v <= QtyNumber(b).v
                  ELSE /\ QtyNumber(a).ok => QtyNumber(b).ok
                       /\ (QtyNumber(a).ok /\ QtyNumber(b).ok) => QtyNumber(a).v >= QtyNumber(b).v
    /\ (filtered = QtyExample /\ sortConfig.direction = "asc")
          => filteredAndSortedPlants = <<SortRow(3), SortRow(1), SortRow(2), SortRow(4)>>

\* C14 witness: the four quantities of the example are sorted ascending.
C14_Witness ==
  /\ sortConfig = [column |-> "qty", direction |-> "asc"]
  /\ filtered = QtyExample

\* the filtered rows that have a value in the sort column
Present == SelectSeq(filtered, LAMBDA plant : ~Lacks(plant))

Sgn(n) == IF n > 0 THEN 1 ELSE IF n < 0 THEN -1 ELSE 0
Reversed(rows) == [k \in 1..Len(rows) |-> rows[Len(rows) + 1 - k]]
Ascending == [column |-> sortConfig.column, direction |-> "asc"]
Descending == [column |-> sortConfig.column, direction |-> "desc"]

\* the two rows are compared by quantity and the same number is read from both
QtyTie(a, b) ==
  /\ sortConfig.column = "qty"
  /\ QtyNumber(a).ok /\ QtyNumber(b).ok
  /\ QtyNumber(a).v = QtyNumber(b).v

NoneEqualAscending ==
  \A i, j \in 1..Len(Present) :
     i # j => comparePlants(Present[i], Present[j], Ascending) # 0

\* C24 as stated: for any two present values of the sort column, the quantity
\* column included, the descending result is the sign-negation of the ascending
\* result, and the descending order of the rows with present values is the
\* reverse of their ascending order when no two compare equal ascending.
C24_DescendingNegatesAscending ==
  sortConfig # NoSort =>
    /\ \A i, j \in 1..Len(Present) :
          Sgn(comparePlants(Present[i], Present[j], Descending))
            = 0 - Sgn(comparePlants(Present[i], Present[j], Ascending))
    /\ NoneEqualAscending
          => sortPlants(Present, Descending, engine)
             = Reversed(sortPlants(Present, Ascending, engine))

\* C24 amended: the same, except for two quantities the same number is read
\* from: those are ordered by localeCompare of their texts in both directions,
\* so they keep their ascending order when the rest is reversed.
C24_NegatesExceptQuantityTies ==
  sortConfig # NoSort =>
    /\ \A i, j \in 1..Len(Present) :
          IF QtyTie(Present[i], Present[j])
            THEN /\ comparePlants(Present[i], Present[j], Descending)
                      = localeCompare(ToStr(Get(Present[i], "qty")),
                                      ToStr(Get(Present[j], "qty")))
                 /\ comparePlants(Present[i], Present[j], Descending)
                      = comparePlants(Present[i], Present[j], Ascending)
            ELSE Sgn(comparePlants(Present[i], Present[j], Descending))
                   = 0 - Sgn(comparePlants(Present[i], Present[j], Ascending))
    /\ (/\ NoneEqualAscending
        /\ \A i, j \in 1..Len(Present) : i # j => ~QtyTie(Present[i], Present[j]))
          => sortPlants(Present, Descending, engine)
             = Reversed(sortPlants(Present, Ascending, engine))

\* C24 witness: sorted by quantity descending, "10" comes first and "5" still
\* comes before "5+", as it does ascending.
C24_Witness ==
  /\ sortConfig = [column |-> "qty", direction |-> "desc"]
  /\ Len(filteredAndSortedPlants) = 3
  /\ Get(filteredAndSortedPlants[1], "qty") = JStr(<<"1","0">>)
  /\ Get(filteredAndSortedPlants[2], "qty") = JStr(<<"5">>)
  /\ Get(filteredAndSortedPlants[3], "qty") = JStr(<<"5","+">>)

(***************************************************************************)
(* Properties of the grid and its fetches, stated for Spec.                *)
(***************************************************************************)
\* C1: a plants response that resolves for a dome other than the selected one
\* (a stale response) is discarded: it never replaces the Row Store.
C1_StaleResponseDiscarded ==
  [][\A dome \in Scopes :
        (plantsInFlight'[dome] < plantsInFlight[dome] /\ dome # selectedDome)
          => (allPlants' = allPlants /\ storeDome' = storeDome)]_vars

\* C4: every step that changes the global query, the column filters, the sort
\* or the selected scope leaves the page index at 0.
C4_ChangeResetsPage ==
  [][(\/ searchQuery' # searchQuery
      \/ columnFilters' # columnFilters
      \/ sortConfig' # sortConfig
      \/ selectedDome' # selectedDome) => currentPage' = 0]_vars

\* C5: whenever the grid shows a non-empty filtered result, the page index is
\* smaller than the page count.
C5_PageWithinRange ==
  (MainRendered /\ ~isLoadingPlants /\ Len(filtered) > 0) => currentPage < totalPages

\* C19: resetEverything leaves the query empty, the committed column filters and
\* the persisted filter map empty, no sort, page 0, every current column shown and
\* the persisted visibility map with entry true for every current column.
C19_ResetAll ==
  [][resetEverything =>
       /\ searchQuery' = <<>>
       /\ DOMAIN ObjectEntries(columnFilters') = {}
       /\ lsFilters'.t = "json"
       /\ DOMAIN ObjectEntries(loadColumnFilters(lsFilters')) = {}
       /\ sortConfig' = NoSort
       /\ currentPage' = 0
       /\ visibleColumns' = columns'
       /\ lsVisibility'.t = "json" /\ lsVisibility'.v.t = "obj"
       /\ \A col \in columns' :
             col \in DOMAIN lsVisibility'.v.v /\ lsVisibility'.v.v[col] = JBool(TRUE)]_vars

\* C19 witness: the reset has run on a loaded store of more than one page; no
\* query, filter or sort is left and every column is shown.
C19_Witness ==
  /\ lastOp = "reset"
  /\ columns # {}
  /\ totalPages > 1
  /\ searchQuery = <<>> /\ sortConfig = NoSort /\ currentPage = 0
  /\ lsFilters = JSONstringify(JObj(EmptyMap))
  /\ columnFilters = JObj(EmptyMap)
  /\ visibleColumns = columns

\* C20: after a column-filter commit, a clear and a reset, the persisted filter
\* map is the committed in-memory map, and the load of a new session returns
\* that map, with the same columns and the same raw texts.
C20_FiltersPersistedVerbatim ==
  [][(\/ handleColumnFilter
      \/ \E column \in columns : handleClearColumnFilter(column)
      \/ resetEverything)
       => /\ lsFilters'.t = "json"
          /\ JSONparse(lsFilters') = columnFilters'
          /\ loadColumnFilters(lsFilters') = columnFilters']_vars

\* C20 witness: a filter text in upper case is committed and persisted as typed.
C20_Witness ==
  /\ DOMAIN ObjectEntries(columnFilters) = {"name"}
  /\ ObjectEntries(columnFilters)["name"] = JStr(<<"F">>)
  /\ lsFilters.t = "json"
  /\ loadColumnFilters(lsFilters) = columnFilters

\* C29: the plants-loading flag is true in every state in which a plants fetch
\* is pending, also when several fetches overlap.
C29_LoadingWhileInFlight == InFlightCount > 0 => isLoadingPlants

\* C30: a plants fetch that throws leaves the Row Store, the total and the
\* columns as they were, records an error message and clears the plants-loading
\* flag; the query, the column filters, the sort and the visibility, in memory
\* and persisted, are unchanged.
C30_ThrowKeepsRowStore ==
  [][(\E dome \in Scopes : \E plants \in GridResponses(dome) :
        LoadPlantsResolve(dome, "throw", plants))
       => /\ allPlants' = allPlants /\ total' = total /\ columns' = columns
          /\ error' # NoError
          /\ isLoadingPlants' = FALSE
          /\ searchQuery' = searchQuery /\ sortConfig' = sortConfig
          /\ columnFilters' = columnFilters /\ lsFilters' = lsFilters
          /\ visibleColumns' = visibleColumns /\ lsVisibility' = lsVisibility]_vars

\* C30 witness: a fetch threw after rows had been loaded; the rows, the query and
\* a hidden column are still there behind the error.
C30_Witness ==
  /\ error = "Failed to load plants from database"
  /\ ~isLoadingPlants /\ InFlightCount = 0
  /\ Len(allPlants) > 0 /\ total = Len(allPlants) /\ columns # {}
  /\ searchQuery # <<>>
  /\ visibleColumns # columns

(***************************************************************************)
(* SpecLive: the grid with the network answering: a pending fetch of the   *)
(* domes or of the plants is eventually resolved (or rejected).  Nothing   *)
(* is assumed about what the user does.                                    *)
(***************************************************************************)
DomesAnswered == \E outcome \in {"ok", "none", "throw"} : LoadDomesResolve(outcome, GridDomes)

PlantsAnswered ==
  \E dome \in GridScopes, outcome \in {"ok", "fail", "throw"} :
     \E plants \in GridResponses(dome) : LoadPlantsResolve(dome, outcome, plants)

SpecLive == Init /\ [][Next]_vars /\ WF_vars(DomesAnswered) /\ WF_vars(PlantsAnswered)

\* Refresh has started a fetch of the domes that is still pending: the domes are
\* known from an earlier fetch, so the pending one is not the one of the mount
RefreshPending == domesInFlight /\ domes # {}

\* C28 (SpecLive): once Refresh has started its fetch of the domes and no plants
\* fetch is pending, a plants fetch is eventually issued, whatever scope is
\* selected.
C28_RefreshRefetchesPlants ==
  (RefreshPending /\ InFlightCount = 0) ~> (InFlightCount > 0)

(***************************************************************************)
(* LanguageProvider (user application): the language chosen on mount and   *)
(* its storage under 'app-language'.  A stored text is absent or the text  *)
(* itself, [t |-> "text", v |-> ...]; the language <<>> stands for null    *)
(* and for a prop that is not given.                                       *)
(***************************************************************************)
LangEn == <<"e","n">>
LangEs == <<"e","s">>
LangFr == <<"f","r">>
LangDe == <<"d","e">>

\* the codes in the order of getStoredLanguage's list and of the startsWith tests
supportedLanguages ==
  << LangEn, LangEs, <<"z","h">>, LangFr, LangDe, <<"j","a">>, <<"a","r">>,
     <<"r","u">>, <<"p","t">>, <<"i","t">> >>

\* s.startsWith(prefix)
startsWith(s, prefix) == Len(prefix) <= Len(s) /\ SubSeq(s, 1, Len(prefix)) = prefix

\* getStoredLanguage(): a throwing getItem is caught and gives null
getStoredLanguage(text, canRead) ==
  IF canRead /\ text.t = "text" /\ text.v # <<>>
             /\ \E i \in 1..Len(supportedLanguages) : supportedLanguages[i] = text.v
    THEN text.v
    ELSE <<>>

\* setStoredLanguage(language): a throwing setItem is caught
setStoredLanguage(text, language, canWrite) ==
  IF canWrite THEN [t |-> "text", v |-> language] ELSE text

\* the startsWith tests of detectBrowserLanguage from the i-th on
RECURSIVE FirstPrefix(_, _)
FirstPrefix(browserLang, i) ==
  IF i > Len(supportedLanguages) THEN LangEn
  ELSE IF startsWith(browserLang, supportedLanguages[i]) THEN supportedLanguages[i]
  ELSE FirstPrefix(browserLang, i + 1)

\* detectBrowserLanguage(): navigator.language that is not a string makes
\* toLowerCase throw, which is caught
detectBrowserLanguage(language) ==
  IF language.t = "str" THEN FirstPrefix(toLowerCase(language.v), 1) ELSE LangEn

\* the initializer that prefers the prop to the stored language
InitialLanguage_PropFirst(text, canRead, prop, language) ==
  IF prop # <<>> THEN prop
  ELSE IF getStoredLanguage(text, canRead) # <<>> THEN getStoredLanguage(text, canRead)
  ELSE detectBrowserLanguage(language)

\* the initializer of useState in LanguageProvider
InitialLanguage(text, canRead, prop, language) ==
  LET stored == getStoredLanguage(text, canRead)
  IN  IF stored # <<>> THEN stored
      ELSE IF prop # <<>> THEN prop
      ELSE detectBrowserLanguage(language)

\* the first render of LanguageProvider and its effect on [currentLanguage]
MountProvider ==
  /\ ~providerMounted
  /\ providerMounted' = TRUE
  /\ currentLanguage' = InitialLanguage(lsLanguage, readable, defaultLanguage, browserLanguage)
  /\ lsLanguage' = setStoredLanguage(lsLanguage, currentLanguage', writable)
  /\ UNCHANGED <<gridVars, filterVars, visibilityVars, fetchVars, writable,
                 foundVisibility, foundFilters, engine, lsVisibleColumns,
                 readable, defaultLanguage, browserLanguage>>

\* setLanguage(lang) and the effect on [currentLanguage]
setLanguage(lang) ==
  /\ providerMounted
  /\ lang # currentLanguage
  /\ currentLanguage' = lang
  /\ lsLanguage' = setStoredLanguage(lsLanguage, lang, writable)
  /\ UNCHANGED <<gridVars, filterVars, visibilityVars, fetchVars, writable,
                 foundVisibility, foundFilters, engine, lsVisibleColumns,
                 readable, defaultLanguage, browserLanguage, providerMounted>>

\* the page is closed; the next mount is a new session
UnmountProvider ==
  /\ providerMounted
  /\ providerMounted' = FALSE
  /\ currentLanguage' = <<>>
  /\ UNCHANGED <<gridVars, filterVars, visibilityVars, fetchVars, writable,
                 foundVisibility, foundFilters, engine, lsVisibleColumns,
                 lsLanguage, readable, defaultLanguage, browserLanguage>>

\* what an earlier session, or something else, left under 'app-language'
LanguageTexts ==
  { [t |-> "absent"],
    [t |-> "text", v |-> <<>>],
    [t |-> "text", v |-> LangEs],
    [t |-> "text", v |-> <<"E","S">>],
    [t |-> "text", v |-> <<"n","l">>] }

DefaultProps == {<<>>, LangDe}

BrowserLanguages ==
  { [t |-> "str", v |-> <<"e","n","-","U","S">>],
    [t |-> "str", v |-> <<"F","R","-","b","e">>],
    [t |-> "str", v |-> <<"e","s">>],
    [t |-> "str", v |-> <<"n","l","-","B","E">>],
    [t |-> "undefined"] }

ChosenLanguages == {LangEn, LangFr}

InitLanguage ==
  /\ \E canWrite \in BOOLEAN : MountWith(Absent, Absent, canWrite)
  /\ engine = "laterFirst"
  /\ lsVisibleColumns = Absent
  /\ lsLanguage \in LanguageTexts
  /\ readable \in BOOLEAN
  /\ defaultLanguage \in DefaultProps
  /\ browserLanguage \in BrowserLanguages
  /\ currentLanguage = <<>>
  /\ providerMounted = FALSE

NextLanguage ==
  \/ MountProvider
  \/ \E lang \in ChosenLanguages : setLanguage(lang)
  \/ UnmountProvider

SpecLanguage == InitLanguage /\ [][NextLanguage]_vars

\* the codes that are a prefix of the browser locale, case ignored
PrefixCodes ==
  IF browserLanguage.t # "str" THEN {}
  ELSE {supportedLanguages[i] : i \in
          {k \in 1..Len(supportedLanguages) :
             startsWith(toLowerCase(browserLanguage.v), supportedLanguages[k])}}

SupportedStored ==
  /\ readable
  /\ lsLanguage.t = "text"
  /\ lsLanguage.v \in {supportedLanguages[i] : i \in 1..Len(supportedLanguages)}

====
